---------------------------- MODULE Spec2Model ----------------------------
(***************************************************************************)
(* Model of the billing API's Carta Porte core:                            *)
(*   - the two invoice-creating flows (CreateCartaPorteService.execute and *)
(*     the /carta-porte/facturify endpoint) with their units of work, the  *)
(*     Invoice status machine and the provider call                        *)
(*     (specification Spec);                                               *)
(*   - the Facturify auth client: the token cache, obtain_token,           *)
(*     refresh_token and get_valid_token with their retries                *)
(*     (specification SpecAuth).                                           *)
(***************************************************************************)
EXTENDS Integers, Sequences, FiniteSets, TLC

\* the create requests in flight together
Reqs == {"r1", "r2"}

\* recipient RFCs carried by requests
RFCs == {"AAA010101AAA", "BBB010101BBB"}

\* the two create flows
Paths == {"execute", "facturify"}

(***************************************************************************)
(* Python values.  None, a missing dict key and the empty string are all   *)
(* falsy for the `or` chains and `if` tests of the code, and are one value *)
(* here.                                                                   *)
(***************************************************************************)
NoneV == "None"

(***************************************************************************)
(* A provider response to POST /api/v1/factura as the code inspects it:    *)
(*   data   : "absent" (no key), "dict", or "null" (a non-dict JSON value) *)
(*   d_uuid : data["cfdi_uuid"]                                            *)
(*   top    : response["cfdi_uuid"]                                        *)
(*   cfdi   : data["cfdi"]: "absent", "dict" or "null"                     *)
(*   c_uuid : data["cfdi"]["cfdi_uuid"]                                    *)
(* The UUID differs per place so that the place it was taken from shows.   *)
(***************************************************************************)
NoResp == [data |-> "none", d_uuid |-> NoneV, top |-> NoneV,
           cfdi |-> "none", c_uuid |-> NoneV]

Responses ==
    { r \in [data : {"absent", "dict", "null"},
             d_uuid : {NoneV, "uuid-data"},
             top : {NoneV, "uuid-top"},
             cfdi : {"absent", "dict", "null"},
             c_uuid : {NoneV, "uuid-cfdi"}] :
        /\ (r.data # "dict" => r.d_uuid = NoneV /\ r.cfdi = "absent")
        /\ (r.cfdi # "dict" => r.c_uuid = NoneV) }

\* data.get("serie"), data.get("folio"), data.get("factura_id"),
\* data.get("provider"): the remittance metadata, one value here.
DataRemit(resp) == IF resp.data = "dict" THEN "remit" ELSE NoneV

\* exceptions the try block around build + create_carta_porte can raise
CallErrors == {"RenderError", "AuthError", "RequestError", "ExternalServiceError"}

(***************************************************************************)
(* Invoice (domain entity) and its persisted row.                          *)
(***************************************************************************)
InvoiceStatus == {"draft", "pending", "issued", "failed", "canceled"}

NoInvoice == [status |-> "none", facturify_uuid |-> NoneV,
              facturify_response |-> NoResp, remit |-> NoneV]

\* Invoice(...): status defaults to draft, provider fields to None
NewInvoice == [NoInvoice EXCEPT !.status = "draft"]

mark_pending(i) == [i EXCEPT !.status = "pending"]

\* mark_issued() that forgets to store the UUID
mark_issued_no_uuid(i, uuid, payload, remit) ==
    [i EXCEPT !.status = "issued", !.facturify_response = payload,
              !.remit = remit]

mark_issued(i, uuid, payload, remit) ==
    [i EXCEPT !.status = "issued", !.facturify_uuid = uuid,
              !.facturify_response = payload, !.remit = remit]

\* mark_failed() that forgets the status
mark_failed_keeps_status(i) == i

mark_failed(i) == [i EXCEPT !.status = "failed"]

NoRow == [status |-> "norow", facturify_uuid |-> NoneV,
          facturify_payload |-> NoResp, remit |-> NoneV]

\* InvoiceORM(...) in create(): only the status of the provider-related
\* columns is written
CreateRow(i) == [NoRow EXCEPT !.status = i.status]

\* update(): status, facturify_uuid, facturify_payload, serie/folio/...
UpdateRow(row, i) ==
    [row EXCEPT !.status = i.status, !.facturify_uuid = i.facturify_uuid,
                !.facturify_payload = i.facturify_response,
                !.remit = i.remit]

VARIABLES
    \* ---- create flows ----
    pc,          \* position of each request
    path,        \* flow the request runs
    rfc,         \* recipient RFC of the request
    inv,         \* the request's in-memory Invoice
    resp,        \* provider response held by the request
    exc,         \* exception travelling to the except block
    outcome,     \* how the request ended
    tx_open,     \* the request holds an open unit of work
    tx_client,   \* uncommitted client write of the open session
    tx_inv,      \* uncommitted invoice row of the open session
    saw,         \* result of the last SELECT on clients by RFC
    clients,     \* committed clients table, by RFC
    rows,        \* number of committed client rows per RFC
    db_inv,      \* committed invoice row of each request's invoice
    hist,        \* statuses the in-memory invoice has taken
    db_hist,     \* statuses written to the invoice row (flushes)
    \* ---- auth client ----
    tok,         \* cache key facturify:auth:token
    tok_ttl,     \* its remaining TTL
    exp_val,     \* cache key facturify:auth:token_expiry
    exp_ttl,     \* its remaining TTL
    tok_exp,     \* the expires_in of the response whose token is cached
    exp_tok,     \* the token whose response wrote the expiry key
    issued,      \* tokens the provider has issued so far
    apc,         \* position of each get_valid_token caller
    via,         \* who called obtain_token
    o_att,       \* attempts of the running obtain_token
    r_att,       \* attempts of the running refresh_token
    token_read,  \* get_valid_token's local `token`
    ttl_read,    \* get_valid_token's local `ttl`
    bearer,      \* refresh_token's local `current_token`
    data,        \* the 200 response being cached / returned
    last_err,    \* the last exception raised by an attempt
    result,      \* what get_valid_token returned or raised
    sent,        \* requests sent to the provider by this call
    status,      \* outcome of the last request this call sent
    n_refresh,   \* refresh_token() invocations by this call
    n_obtain,    \* obtain_token() invocations by get_valid_token itself
    \* ---- background refresh loop ----
    lpc,         \* position of the loop task
    l_exp,       \* the loop's local `original_expiry` (0: None)
    l_calls,     \* calls the current iteration has made
    l_err,       \* the exception the current iteration ended with
    shutdown,    \* self._shutdown
    \* ---- request boundary ----
    b_path,      \* endpoint the request was posted to
    b_rfc,       \* recipient RFC of the request, as characters (<< >>: none)
    b_zip,       \* recipient zip code of the request (<< >>: none)
    b_known,     \* a client with the request's RFC is already stored
    b_pc,        \* how far the request has got
    b_party,     \* the Party built for the recipient
    b_saved,     \* the Party was written to the clients table
    b_called,    \* the provider was called
    b_locs,      \* the location types of the request, in order
    b_shipment,  \* the Shipment built from the request, if any
    b_invoice,   \* an invoice of the request was inserted
    \* ---- domain constructors, payload builder, parsers ----
    f_op,        \* the function being applied ("none": nothing yet)
    f_in,        \* its argument
    f_out        \* its result, once it has returned or raised

flow_vars == <<pc, path, rfc, inv, resp, exc, outcome, tx_open, tx_client,
               tx_inv, saw, clients, rows, db_inv, hist, db_hist>>

auth_vars == <<tok, tok_exp, tok_ttl, exp_val, exp_ttl, exp_tok, issued, apc, via, o_att, r_att,
               token_read, ttl_read, bearer, data, last_err, result, sent,
               status, n_refresh, n_obtain>>

loop_vars == <<lpc, l_exp, l_calls, l_err, shutdown>>

dto_vars == <<b_path, b_rfc, b_zip, b_known, b_pc, b_party, b_saved, b_called,
             b_locs, b_shipment, b_invoice>>

fn_vars == <<f_op, f_in, f_out>>

\* what the create flows leave alone, and what the token manager, the
\* background loop and the request boundary do
beside_flow == <<auth_vars, loop_vars, dto_vars, fn_vars>>

beside_auth == <<flow_vars, loop_vars, dto_vars, fn_vars>>

beside_loop == <<flow_vars, dto_vars, fn_vars>>

beside_dto == <<flow_vars, auth_vars, loop_vars, fn_vars>>

beside_fn == <<flow_vars, auth_vars, loop_vars, dto_vars>>

vars == <<pc, path, rfc, inv, resp, exc, outcome, tx_open, tx_client,
          tx_inv, saw, clients, rows, db_inv, hist, db_hist,
          tok, tok_exp, tok_ttl, exp_val, exp_ttl, exp_tok, issued, apc, via, o_att,
          r_att, token_read, ttl_read, bearer, data, last_err, result, sent,
          status, n_refresh, n_obtain,
          lpc, l_exp, l_calls, l_err, shutdown,
          b_path, b_rfc, b_zip, b_known, b_pc, b_party, b_saved, b_called,
          b_locs, b_shipment, b_invoice,
          f_op, f_in, f_out>>


(***************************************************************************)
(* The create flows.                                                       *)
(***************************************************************************)
FlowInit ==
    /\ pc = [r \in Reqs |-> "idle"]
    /\ path = [r \in Reqs |-> "none"]
    /\ rfc = [r \in Reqs |-> NoneV]
    /\ inv = [r \in Reqs |-> NoInvoice]
    /\ resp = [r \in Reqs |-> NoResp]
    /\ exc = [r \in Reqs |-> "none"]
    /\ outcome = [r \in Reqs |-> "none"]
    /\ tx_open = [r \in Reqs |-> FALSE]
    /\ tx_client = [r \in Reqs |-> "none"]
    /\ tx_inv = [r \in Reqs |-> NoRow]
    /\ saw = [r \in Reqs |-> FALSE]
    /\ clients = [x \in RFCs |-> IF x = "AAA010101AAA" THEN "stored" ELSE "none"]
    /\ rows = [x \in RFCs |-> IF x = "AAA010101AAA" THEN 1 ELSE 0]
    /\ db_inv = [r \in Reqs |-> NoRow]
    /\ hist = [r \in Reqs |-> << >>]
    /\ db_hist = [r \in Reqs |-> << >>]

\* where a flow continues once it holds its recipient: execute() builds and
\* creates the invoice in the same unit of work, the endpoint leaves its
\* `async with` block
AfterRecipient(r) == IF path[r] = "execute" THEN "create" ELSE "commit1"

\* A request arrives and enters `async with uow_factory() as uow`.
Begin(r) ==
    /\ pc[r] = "idle"
    /\ \E p \in Paths, x \in RFCs :
          /\ path' = [path EXCEPT ![r] = p]
          /\ rfc' = [rfc EXCEPT ![r] = x]
    /\ tx_open' = [tx_open EXCEPT ![r] = TRUE]
    /\ pc' = [pc EXCEPT ![r] = "get_by_rfc"]
    /\ UNCHANGED <<inv, resp, exc, outcome, tx_client, tx_inv, saw, clients, rows,
                   db_inv, hist, db_hist>>
    /\ UNCHANGED beside_flow

\* a flow that upserts its recipient whatever get_by_rfc returned
GetByRfc_AlwaysUpsert(r) ==
    /\ pc[r] = "get_by_rfc"
    /\ saw' = [saw EXCEPT ![r] = clients[rfc[r]] # "none"]
    /\ pc' = [pc EXCEPT ![r] = "upsert_select"]
    /\ UNCHANGED <<path, rfc, inv, resp, exc, outcome, tx_open, tx_client,
                   tx_inv, clients, rows, db_inv, hist, db_hist>>
    /\ UNCHANGED beside_flow

\* uow.clients.get_by_rfc(rfc): SELECT on the committed table
GetByRfc(r) ==
    /\ pc[r] = "get_by_rfc"
    /\ saw' = [saw EXCEPT ![r] = clients[rfc[r]] # "none"]
    /\ pc' = [pc EXCEPT ![r] = IF clients[rfc[r]] # "none"
                                 THEN AfterRecipient(r) ELSE "upsert_select"]
    /\ UNCHANGED <<path, rfc, inv, resp, exc, outcome, tx_open, tx_client,
                   tx_inv, clients, rows, db_inv, hist, db_hist>>
    /\ UNCHANGED beside_flow

\* upsert(): its own SELECT by RFC
UpsertSelect(r) ==
    /\ pc[r] = "upsert_select"
    /\ saw' = [saw EXCEPT ![r] = clients[rfc[r]] # "none"]
    /\ pc' = [pc EXCEPT ![r] = "upsert_flush"]
    /\ UNCHANGED <<path, rfc, inv, resp, exc, outcome, tx_open, tx_client,
                   tx_inv, clients, rows, db_inv, hist, db_hist>>
    /\ UNCHANGED beside_flow

\* __aexit__ with an exception: rollback and close
Rollback(r) ==
    /\ tx_open' = [tx_open EXCEPT ![r] = FALSE]
    /\ tx_client' = [tx_client EXCEPT ![r] = "none"]
    /\ tx_inv' = [tx_inv EXCEPT ![r] = NoRow]

\* __aexit__ without exception: commit and close
SessionCommit(r) ==
    /\ clients' = IF tx_client[r] # "none"
                    THEN [clients EXCEPT ![rfc[r]] = r] ELSE clients
    /\ rows' = IF tx_client[r] = "insert"
                 THEN [rows EXCEPT ![rfc[r]] = @ + 1] ELSE rows
    /\ db_inv' = IF tx_inv[r] # NoRow
                   THEN [db_inv EXCEPT ![r] = tx_inv[r]] ELSE db_inv
    /\ tx_open' = [tx_open EXCEPT ![r] = FALSE]
    /\ tx_client' = [tx_client EXCEPT ![r] = "none"]
    /\ tx_inv' = [tx_inv EXCEPT ![r] = NoRow]

\* upsert() on a clients table without the unique index on rfc
UpsertFlush_NoUniqueIndex(r) ==
    /\ pc[r] = "upsert_flush"
    /\ tx_client' = [tx_client EXCEPT ![r] = IF saw[r] THEN "update" ELSE "insert"]
    /\ pc' = [pc EXCEPT ![r] = AfterRecipient(r)]
    /\ UNCHANGED <<tx_open, tx_inv, outcome>>
    /\ UNCHANGED <<path, rfc, inv, resp, exc, saw, clients, rows, db_inv, hist,
                   db_hist>>
    /\ UNCHANGED beside_flow

\* upsert(): session.add / attribute writes, then flush.  The INSERT waits
\* while another open session holds an uncommitted row with the same RFC
\* (unique index on clients.rfc) and fails once such a row is committed.
UpsertFlush(r) ==
    /\ pc[r] = "upsert_flush"
    /\ \/ /\ saw[r]
          /\ tx_client' = [tx_client EXCEPT ![r] = "update"]
          /\ pc' = [pc EXCEPT ![r] = AfterRecipient(r)]
          /\ UNCHANGED <<tx_open, tx_inv, outcome>>
       \/ /\ ~saw[r]
          /\ clients[rfc[r]] = "none"
          /\ \A q \in Reqs \ {r} :
                ~(tx_open[q] /\ tx_client[q] = "insert" /\ rfc[q] = rfc[r])
          /\ tx_client' = [tx_client EXCEPT ![r] = "insert"]
          /\ pc' = [pc EXCEPT ![r] = AfterRecipient(r)]
          /\ UNCHANGED <<tx_open, tx_inv, outcome>>
       \/ /\ ~saw[r]
          /\ clients[rfc[r]] # "none"
          /\ Rollback(r)
          /\ outcome' = [outcome EXCEPT ![r] = "IntegrityError"]
          /\ pc' = [pc EXCEPT ![r] = "done"]
    /\ UNCHANGED <<path, rfc, inv, resp, exc, saw, clients, rows, db_inv, hist,
                   db_hist>>
    /\ UNCHANGED beside_flow

\* execute(): the provider call moved inside the first `async with` block
ExecuteCreate_InsideTx(r) ==
    /\ pc[r] = "create"
    /\ path[r] = "execute"
    /\ inv' = [inv EXCEPT ![r] = mark_pending(NewInvoice)]
    /\ hist' = [hist EXCEPT ![r] = <<"draft", "pending">>]
    /\ tx_inv' = [tx_inv EXCEPT ![r] = CreateRow(mark_pending(NewInvoice))]
    /\ db_hist' = [db_hist EXCEPT ![r] = Append(@, "pending")]
    /\ pc' = [pc EXCEPT ![r] = "in_flight"]
    /\ UNCHANGED <<path, rfc, resp, exc, outcome, tx_open, tx_client, saw,
                   clients, rows, db_inv>>
    /\ UNCHANGED beside_flow

\* execute(): _invoice_from_payload, mark_pending, uow.invoices.create
ExecuteCreate(r) ==
    /\ pc[r] = "create"
    /\ path[r] = "execute"
    /\ inv' = [inv EXCEPT ![r] = mark_pending(NewInvoice)]
    /\ hist' = [hist EXCEPT ![r] = <<"draft", "pending">>]
    /\ tx_inv' = [tx_inv EXCEPT ![r] = CreateRow(mark_pending(NewInvoice))]
    /\ db_hist' = [db_hist EXCEPT ![r] = Append(@, "pending")]
    /\ pc' = [pc EXCEPT ![r] = "commit1"]
    /\ UNCHANGED <<path, rfc, resp, exc, outcome, tx_open, tx_client, saw,
                   clients, rows, db_inv>>
    /\ UNCHANGED beside_flow

\* execute() whose unit of work commits what was flushed although
\* creating the invoice raised
ExecuteCreateFails_CommitsRecipient(r) ==
    /\ pc[r] = "create"
    /\ path[r] = "execute"
    /\ SessionCommit(r)
    /\ outcome' = [outcome EXCEPT ![r] = "CreateError"]
    /\ pc' = [pc EXCEPT ![r] = "done"]
    /\ UNCHANGED <<path, rfc, inv, resp, exc, saw, hist, db_hist>>
    /\ UNCHANGED beside_flow

\* execute(): _invoice_from_payload raises, or the flush of
\* uow.invoices.create fails (a value too long for its column): the
\* exception leaves the `async with` block, __aexit__ rolls back
ExecuteCreateFails(r) ==
    /\ pc[r] = "create"
    /\ path[r] = "execute"
    /\ Rollback(r)
    /\ outcome' = [outcome EXCEPT ![r] = "CreateError"]
    /\ pc' = [pc EXCEPT ![r] = "done"]
    /\ UNCHANGED <<path, rfc, inv, resp, exc, saw, clients, rows, db_inv, hist,
                   db_hist>>
    /\ UNCHANGED beside_flow

\* leaving the first `async with` block of either flow
Commit1(r) ==
    /\ pc[r] = "commit1"
    /\ SessionCommit(r)
    /\ pc' = [pc EXCEPT ![r] = "call"]
    /\ UNCHANGED <<path, rfc, inv, resp, exc, outcome, saw, hist, db_hist>>
    /\ UNCHANGED beside_flow

\* execute(): issuer Party, payload_builder.build (which may raise), then
\* create_carta_porte is awaited; the endpoint: FacturifyClient(...), then
\* create_carta_porte is awaited
StartCall(r) ==
    /\ pc[r] = "call"
    /\ \/ /\ pc' = [pc EXCEPT ![r] = "in_flight"]
          /\ exc' = exc
       \/ /\ path[r] = "execute"
          /\ exc' = [exc EXCEPT ![r] = "RenderError"]
          /\ pc' = [pc EXCEPT ![r] = "handle_exc"]
    /\ UNCHANGED <<path, rfc, inv, resp, outcome, tx_open, tx_client, tx_inv,
                   saw, clients, rows, db_inv, hist, db_hist>>
    /\ UNCHANGED beside_flow

\* FacturifyClient._post ends: get_valid_token failed, the transport error
\* outlived the retries, _handle_response raised, or a dict is returned.
\* The endpoint turns every exception into HTTPException(400).
ProviderRespond(r) ==
    /\ pc[r] = "in_flight"
    /\ \/ /\ path[r] = "execute"
          /\ \E e \in CallErrors \ {"RenderError"} :
                exc' = [exc EXCEPT ![r] = e]
          /\ pc' = [pc EXCEPT ![r] = "handle_exc"]
          /\ UNCHANGED <<resp, outcome>>
       \/ /\ path[r] = "facturify"
          /\ \E e \in CallErrors \ {"RenderError"} :
                exc' = [exc EXCEPT ![r] = e]
          /\ outcome' = [outcome EXCEPT ![r] = "HTTPException"]
          /\ pc' = [pc EXCEPT ![r] = "done"]
          /\ UNCHANGED resp
       \/ /\ \E s \in Responses : resp' = [resp EXCEPT ![r] = s]
          /\ pc' = [pc EXCEPT ![r] = "extract"]
          /\ UNCHANGED <<exc, outcome>>
    /\ UNCHANGED <<path, rfc, inv, tx_open, tx_client, tx_inv, saw, clients, rows,
                   db_inv, hist, db_hist>>
    /\ UNCHANGED beside_flow

\* execute(), except Exception: a new unit of work, mark_failed, update
ExecuteExcept(r) ==
    /\ pc[r] = "handle_exc"
    /\ tx_open' = [tx_open EXCEPT ![r] = TRUE]
    /\ inv' = [inv EXCEPT ![r] = mark_failed(@)]
    /\ hist' = [hist EXCEPT ![r] = Append(@, mark_failed(inv[r]).status)]
    /\ tx_inv' = [tx_inv EXCEPT ![r] = UpdateRow(db_inv[r], mark_failed(inv[r]))]
    /\ db_hist' = [db_hist EXCEPT ![r] = Append(@, mark_failed(inv[r]).status)]
    /\ pc' = [pc EXCEPT ![r] = "commit_exc"]
    /\ UNCHANGED <<path, rfc, resp, exc, outcome, tx_client, saw, clients, rows,
                   db_inv>>
    /\ UNCHANGED beside_flow

\* the except block's unit of work commits;
\* raise ExternalServiceError(str(exc)) from exc
CommitExc(r) ==
    /\ pc[r] = "commit_exc"
    /\ SessionCommit(r)
    /\ outcome' = [outcome EXCEPT ![r] = "ExternalServiceError"]
    /\ pc' = [pc EXCEPT ![r] = "done"]
    /\ UNCHANGED <<path, rfc, inv, resp, exc, saw, hist, db_hist>>
    /\ UNCHANGED beside_flow

(***************************************************************************)
(* Reading the UUID out of the response.  x.get(k) on a non-dict raises    *)
(* AttributeError; `a or b or c` evaluates b only when a is falsy.         *)
(***************************************************************************)
Raised == [raised |-> TRUE, uuid |-> NoneV]

Got(u) == [raised |-> FALSE, uuid |-> u]

\* execute(): data = response.get("data", {});
\* data.get("cfdi_uuid") or response.get("cfdi_uuid")
\*   or data.get("cfdi", {}).get("cfdi_uuid")
execute_cfdi_uuid(s) ==
    IF s.data = "null" THEN Raised
    ELSE IF s.d_uuid # NoneV THEN Got(s.d_uuid)
    ELSE IF s.top # NoneV THEN Got(s.top)
    ELSE IF s.cfdi = "null" THEN Raised
    ELSE Got(s.c_uuid)

\* the endpoint: data.get("cfdi_uuid") or facturify_response.get("cfdi_uuid"),
\* then data.get("serie") ...
facturify_cfdi_uuid(s) ==
    IF s.data = "null" THEN Raised
    ELSE IF s.d_uuid # NoneV THEN Got(s.d_uuid)
    ELSE Got(s.top)

\* execute(), after the try block: extract the UUID, mark_issued or
\* mark_failed, enter the last `async with`
ExecuteExtract(r) ==
    /\ pc[r] = "extract"
    /\ path[r] = "execute"
    /\ \/ /\ execute_cfdi_uuid(resp[r]).raised
          /\ outcome' = [outcome EXCEPT ![r] = "AttributeError"]
          /\ pc' = [pc EXCEPT ![r] = "done"]
          /\ UNCHANGED <<inv, hist, tx_open>>
       \/ /\ ~execute_cfdi_uuid(resp[r]).raised
          /\ execute_cfdi_uuid(resp[r]).uuid # NoneV
          /\ inv' = [inv EXCEPT ![r] =
                        mark_issued(@, execute_cfdi_uuid(resp[r]).uuid,
                                    resp[r], DataRemit(resp[r]))]
          /\ hist' = [hist EXCEPT ![r] = Append(@, "issued")]
          /\ tx_open' = [tx_open EXCEPT ![r] = TRUE]
          /\ pc' = [pc EXCEPT ![r] = "update"]
          /\ UNCHANGED outcome
       \/ /\ ~execute_cfdi_uuid(resp[r]).raised
          /\ execute_cfdi_uuid(resp[r]).uuid = NoneV
          /\ inv' = [inv EXCEPT ![r] = mark_failed(@)]
          /\ hist' = [hist EXCEPT ![r] = Append(@, mark_failed(inv[r]).status)]
          /\ tx_open' = [tx_open EXCEPT ![r] = TRUE]
          /\ pc' = [pc EXCEPT ![r] = "update"]
          /\ UNCHANGED outcome
    /\ UNCHANGED <<path, rfc, resp, exc, tx_client, tx_inv, saw, clients, rows,
                   db_inv, db_hist>>
    /\ UNCHANGED beside_flow

\* execute(): uow.invoices.update(invoice) in the last unit of work
ExecuteUpdate(r) ==
    /\ pc[r] = "update"
    /\ tx_inv' = [tx_inv EXCEPT ![r] = UpdateRow(db_inv[r], inv[r])]
    /\ db_hist' = [db_hist EXCEPT ![r] = Append(@, inv[r].status)]
    /\ pc' = [pc EXCEPT ![r] = "commit_final"]
    /\ UNCHANGED <<path, rfc, inv, resp, exc, outcome, tx_open, tx_client,
                   saw, clients, rows, db_inv, hist>>
    /\ UNCHANGED beside_flow

\* execute(): the last unit of work commits; return invoice
CommitFinal(r) ==
    /\ pc[r] = "commit_final"
    /\ SessionCommit(r)
    /\ outcome' = [outcome EXCEPT ![r] = "returned"]
    /\ pc' = [pc EXCEPT ![r] = "done"]
    /\ UNCHANGED <<path, rfc, inv, resp, exc, saw, hist, db_hist>>
    /\ UNCHANGED beside_flow

\* the endpoint, after the call: extract the UUID and the metadata, build
\* the domain entities and Invoice(...), enter the second `async with`
FacturifyExtract(r) ==
    /\ pc[r] = "extract"
    /\ path[r] = "facturify"
    /\ \/ /\ facturify_cfdi_uuid(resp[r]).raised
          /\ outcome' = [outcome EXCEPT ![r] = "AttributeError"]
          /\ pc' = [pc EXCEPT ![r] = "done"]
          /\ UNCHANGED <<inv, hist, tx_open>>
       \/ /\ ~facturify_cfdi_uuid(resp[r]).raised
          /\ inv' = [inv EXCEPT ![r] = NewInvoice]
          /\ hist' = [hist EXCEPT ![r] = <<NewInvoice.status>>]
          /\ tx_open' = [tx_open EXCEPT ![r] = TRUE]
          /\ pc' = [pc EXCEPT ![r] = "f_create"]
          /\ UNCHANGED outcome
    /\ UNCHANGED <<path, rfc, resp, exc, tx_client, tx_inv, saw, clients, rows,
                   db_inv, db_hist>>
    /\ UNCHANGED beside_flow

\* the endpoint: uow.invoices.create(invoice), the invoice still draft
FacturifyCreate(r) ==
    /\ pc[r] = "f_create"
    /\ tx_inv' = [tx_inv EXCEPT ![r] = CreateRow(inv[r])]
    /\ db_hist' = [db_hist EXCEPT ![r] = Append(@, inv[r].status)]
    /\ pc' = [pc EXCEPT ![r] = "f_update"]
    /\ UNCHANGED <<path, rfc, inv, resp, exc, outcome, tx_open, tx_client,
                   saw, clients, rows, db_inv, hist>>
    /\ UNCHANGED beside_flow

\* the endpoint: mark_issued(uuid=cfdi_uuid, payload=None, ...) or
\* mark_failed(), then uow.invoices.update(invoice)
FacturifyMarkUpdate(r) ==
    /\ pc[r] = "f_update"
    /\ \/ /\ facturify_cfdi_uuid(resp[r]).uuid # NoneV
          /\ inv' = [inv EXCEPT ![r] =
                        mark_issued(@, facturify_cfdi_uuid(resp[r]).uuid,
                                    NoResp, DataRemit(resp[r]))]
          /\ hist' = [hist EXCEPT ![r] = Append(@, "issued")]
       \/ /\ facturify_cfdi_uuid(resp[r]).uuid = NoneV
          /\ inv' = [inv EXCEPT ![r] = mark_failed(@)]
          /\ hist' = [hist EXCEPT ![r] = Append(@, mark_failed(inv[r]).status)]
    /\ tx_inv' = [tx_inv EXCEPT ![r] = UpdateRow(@, inv'[r])]
    /\ db_hist' = [db_hist EXCEPT ![r] = Append(@, inv'[r].status)]
    /\ pc' = [pc EXCEPT ![r] = "f_commit"]
    /\ UNCHANGED <<path, rfc, resp, exc, outcome, tx_open, tx_client, saw,
                   clients, rows, db_inv>>
    /\ UNCHANGED beside_flow

\* the endpoint's second unit of work commits; the response is returned
FacturifyCommit(r) ==
    /\ pc[r] = "f_commit"
    /\ SessionCommit(r)
    /\ outcome' = [outcome EXCEPT ![r] = "returned"]
    /\ pc' = [pc EXCEPT ![r] = "done"]
    /\ UNCHANGED <<path, rfc, inv, resp, exc, saw, hist, db_hist>>
    /\ UNCHANGED beside_flow

FlowNext ==
    \E r \in Reqs :
        \/ Begin(r)
        \/ GetByRfc(r)
        \/ UpsertSelect(r)
        \/ UpsertFlush(r)
        \/ ExecuteCreate(r)
        \/ ExecuteCreateFails(r)
        \/ Commit1(r)
        \/ StartCall(r)
        \/ ProviderRespond(r)
        \/ ExecuteExcept(r)
        \/ CommitExc(r)
        \/ ExecuteExtract(r)
        \/ ExecuteUpdate(r)
        \/ CommitFinal(r)
        \/ FacturifyExtract(r)
        \/ FacturifyCreate(r)
        \/ FacturifyMarkUpdate(r)
        \/ FacturifyCommit(r)

(***************************************************************************)
(* The auth client.                                                        *)
(***************************************************************************)
\* the task calling get_valid_token
Callers == {"c1"}

\* two tasks calling get_valid_token at the same time
Racers == {"c1", "c2"}

\* the task running _background_refresh_loop
LoopTask == "loop"

\* every task that can run obtain_token / refresh_token
Tasks == Racers \cup {LoopTask}

\* tokens the provider issues within a behaviour
MaxTokens == 3

\* settings.facturify_token_refresh_buffer
RefreshBuffer == 60

\* stop_after_attempt(3) of obtain_token and of refresh_token
ObtainAttempts == 3

RefreshAttempts == 3

\* expires_in of the tokens the provider issues: 240 s on /auth,
\* 43200 s on /token/refresh (docstring of _background_refresh_loop)
ShortTTL == 240

LongTTL == 43200

\* remaining TTLs the model distinguishes: below the buffer, at the buffer,
\* and the two issued values
BelowBuffer == 30

TTLLevels == {BelowBuffer, RefreshBuffer, ShortTTL, LongTTL}

NoData == [token |-> 0, expires_in |-> 0]

AuthInit ==
    /\ tok = 0
    /\ tok_exp = 0
    /\ tok_ttl = 0
    /\ exp_val = 0
    /\ exp_ttl = 0
    /\ exp_tok = 0
    /\ issued = 0
    /\ apc = [c \in Tasks |-> "idle"]
    /\ via = [c \in Tasks |-> "none"]
    /\ o_att = [c \in Tasks |-> 0]
    /\ r_att = [c \in Tasks |-> 0]
    /\ token_read = [c \in Tasks |-> 0]
    /\ ttl_read = [c \in Tasks |-> 0]
    /\ bearer = [c \in Tasks |-> 0]
    /\ data = [c \in Tasks |-> NoData]
    /\ last_err = [c \in Tasks |-> "none"]
    /\ result = [c \in Tasks |-> [kind |-> "none", token |-> 0]]
    /\ sent = [c \in Tasks |-> 0]
    /\ status = [c \in Tasks |-> "none"]
    /\ n_refresh = [c \in Tasks |-> 0]
    /\ n_obtain = [c \in Tasks |-> 0]


\* redis GET / TTL of the token key: TTL answers -2 for a missing key
get_value_token == tok

get_ttl_token == IF tok = 0 THEN -2 ELSE tok_ttl

\* get_valid_token returns or raises: its frames and their locals are gone
Finish(c, kind, token) ==
    /\ result' = [result EXCEPT ![c] = [kind |-> kind, token |-> token]]
    /\ apc' = [apc EXCEPT ![c] = "done"]
    /\ via' = [via EXCEPT ![c] = "none"]
    /\ o_att' = [o_att EXCEPT ![c] = 0]
    /\ r_att' = [r_att EXCEPT ![c] = 0]
    /\ bearer' = [bearer EXCEPT ![c] = 0]
    /\ data' = [data EXCEPT ![c] = NoData]
    /\ last_err' = [last_err EXCEPT ![c] = "none"]

\* obtain_token() is entered: its first attempt
EnterObtain(c, caller) ==
    /\ via' = [via EXCEPT ![c] = caller]
    /\ o_att' = [o_att EXCEPT ![c] = 1]
    /\ apc' = [apc EXCEPT ![c] = "obtain_post"]

\* get_valid_token(): token = await get_value(KEY); `if not token:` the
\* call goes to obtain_token()
GvtStart(c) ==
    /\ apc[c] \in {"idle", "done"}
    /\ token_read' = [token_read EXCEPT ![c] = get_value_token]
    /\ ttl_read' = [ttl_read EXCEPT ![c] = 0]
    /\ result' = [result EXCEPT ![c] = [kind |-> "none", token |-> 0]]
    /\ sent' = [sent EXCEPT ![c] = 0]
    /\ status' = [status EXCEPT ![c] = "none"]
    /\ n_refresh' = [n_refresh EXCEPT ![c] = 0]
    /\ \/ /\ get_value_token = 0
          /\ n_obtain' = [n_obtain EXCEPT ![c] = 1]
          /\ EnterObtain(c, "gvt")
       \/ /\ get_value_token # 0
          /\ n_obtain' = [n_obtain EXCEPT ![c] = 0]
          /\ apc' = [apc EXCEPT ![c] = "gvt_ttl"]
          /\ UNCHANGED <<via, o_att>>
    /\ UNCHANGED <<tok, tok_exp, tok_ttl, exp_val, exp_ttl, exp_tok, issued, r_att, bearer,
                   data, last_err>>
    /\ UNCHANGED beside_auth

\* `if ttl < buffer` written as `if ttl <= buffer`
NeedsRefresh_le(ttl) == ttl <= RefreshBuffer

\* `if ttl < self.settings.facturify_token_refresh_buffer`
NeedsRefresh(ttl) == ttl < RefreshBuffer

\* get_valid_token(): ttl = await get_ttl(KEY); refresh_token() when the
\* TTL is below the buffer, else return the token read before
GvtTtl(c) ==
    /\ apc[c] = "gvt_ttl"
    /\ ttl_read' = [ttl_read EXCEPT ![c] = get_ttl_token]
    /\ \/ /\ NeedsRefresh(get_ttl_token)
          /\ n_refresh' = [n_refresh EXCEPT ![c] = @ + 1]
          /\ r_att' = [r_att EXCEPT ![c] = 1]
          /\ apc' = [apc EXCEPT ![c] = "refresh_get"]
          /\ UNCHANGED <<result, via, o_att, bearer, data, last_err>>
       \/ /\ ~NeedsRefresh(get_ttl_token)
          /\ Finish(c, "cached", token_read[c])
          /\ UNCHANGED n_refresh
    /\ UNCHANGED <<tok, tok_exp, tok_ttl, exp_val, exp_ttl, exp_tok, issued, token_read, sent,
                   status, n_obtain>>
    /\ UNCHANGED beside_auth

\* an exception leaves the body of refresh_token: tenacity runs the body
\* again until stop_after_attempt(3), then re-raises to get_valid_token
RefreshRaise(c, err) ==
    IF r_att[c] < RefreshAttempts
      THEN /\ r_att' = [r_att EXCEPT ![c] = @ + 1]
           /\ apc' = [apc EXCEPT ![c] = "refresh_get"]
           /\ last_err' = [last_err EXCEPT ![c] = err]
           /\ via' = [via EXCEPT ![c] = "none"]
           /\ o_att' = [o_att EXCEPT ![c] = 0]
           /\ bearer' = [bearer EXCEPT ![c] = 0]
           /\ UNCHANGED <<result, data>>
      ELSE Finish(c, err, 0)

\* an exception leaves the body of obtain_token: tenacity runs the body
\* again until stop_after_attempt(3), then re-raises to the caller, which
\* is get_valid_token or the body of refresh_token
ObtainRaise(c, err) ==
    IF o_att[c] < ObtainAttempts
      THEN /\ o_att' = [o_att EXCEPT ![c] = @ + 1]
           /\ last_err' = [last_err EXCEPT ![c] = err]
           /\ UNCHANGED <<apc, result, via, r_att, bearer, data>>
      ELSE IF via[c] = "gvt" THEN Finish(c, err, 0) ELSE RefreshRaise(c, err)

\* expires_in of a 200 response
IssuedTTLs == {ShortTTL, LongTTL}

\* what the code raises for the statuses of the provider it tells apart,
\* and for a transport error (httpx.HTTPError)
AuthFailures ==
    [s401 |-> "AuthError: Authentication failed: <message>",
     s422 |-> "AuthError: Validation error: <field messages>",
     s500 |-> "AuthError: Unexpected response: <status>",
     transport |-> "AuthError: HTTP error"]

\* the auth errors obtain_token and refresh_token raise
AuthErrors == {AuthFailures[k] : k \in DOMAIN AuthFailures}

\* the provider answers 200 with a new token and its expires_in
Provider200(c) ==
    /\ issued < MaxTokens
    /\ \E e \in IssuedTTLs :
          data' = [data EXCEPT ![c] = [token |-> issued + 1, expires_in |-> e]]
    /\ issued' = issued + 1
    /\ status' = [status EXCEPT ![c] = "s200"]

\* obtain_token() dropping the cached token when the provider refuses
ObtainPost_ClearOnFailure(c) ==
    /\ apc[c] = "obtain_post"
    /\ sent' = [sent EXCEPT ![c] = @ + 1]
    /\ \/ /\ Provider200(c)
          /\ apc' = [apc EXCEPT ![c] = "obtain_w1"]
          /\ UNCHANGED <<result, via, o_att, r_att, bearer, last_err,
                         tok, tok_exp, tok_ttl>>
       \/ /\ \E k \in DOMAIN AuthFailures :
                /\ status' = [status EXCEPT ![c] = k]
                /\ ObtainRaise(c, AuthFailures[k])
          /\ tok' = 0
          /\ tok_exp' = 0
          /\ tok_ttl' = 0
          /\ UNCHANGED issued
    /\ UNCHANGED <<exp_val, exp_ttl, exp_tok, token_read, ttl_read,
                   n_refresh, n_obtain>>
    /\ UNCHANGED beside_auth

\* obtain_token(): POST /api/v1/auth and the dispatch on the status code
ObtainPost(c) ==
    /\ apc[c] = "obtain_post"
    /\ sent' = [sent EXCEPT ![c] = @ + 1]
    /\ \/ /\ Provider200(c)
          /\ apc' = [apc EXCEPT ![c] = "obtain_w1"]
          /\ UNCHANGED <<result, via, o_att, r_att, bearer, last_err>>
       \/ /\ \E k \in DOMAIN AuthFailures :
                /\ status' = [status EXCEPT ![c] = k]
                /\ ObtainRaise(c, AuthFailures[k])
          /\ UNCHANGED issued
    /\ UNCHANGED <<tok, tok_exp, tok_ttl, exp_val, exp_ttl, exp_tok, token_read, ttl_read,
                   n_refresh, n_obtain>>
    /\ UNCHANGED beside_auth

\* set_with_expiry(FACTURIFY_TOKEN_KEY, token, expires_in), in
\* obtain_token and in refresh_token
WriteToken(c) ==
    /\ apc[c] \in {"obtain_w1", "refresh_w1"}
    /\ tok' = data[c].token
    /\ tok_exp' = data[c].expires_in
    /\ tok_ttl' = data[c].expires_in
    /\ apc' = [apc EXCEPT ![c] = IF apc[c] = "obtain_w1"
                                   THEN "obtain_w2" ELSE "refresh_w2"]
    /\ UNCHANGED <<exp_val, exp_ttl, exp_tok, issued, via, o_att, r_att, token_read,
                   ttl_read, bearer, data, last_err, result, sent, status,
                   n_refresh,
                   n_obtain>>
    /\ UNCHANGED beside_auth

\* result["jwt"]["token"] of the data obtain_token / refresh_token returned
ReturnedToken(c) == data[c].token

\* set_with_expiry(FACTURIFY_TOKEN_EXPIRY_KEY, str(expires_in), expires_in)
\* and `return data`; get_valid_token returns result["jwt"]["token"]
WriteExpiry(c) ==
    /\ apc[c] \in {"obtain_w2", "refresh_w2"}
    /\ exp_val' = data[c].expires_in
    /\ exp_ttl' = data[c].expires_in
    /\ exp_tok' = data[c].token
    /\ Finish(c, IF n_obtain[c] = 1 THEN "obtained" ELSE "refreshed",
              ReturnedToken(c))
    /\ UNCHANGED <<tok, tok_exp, tok_ttl, issued, token_read, ttl_read, sent,
                   status, n_refresh, n_obtain>>
    /\ UNCHANGED beside_auth

\* refresh_token(): current_token = await get_value(KEY); without a token
\* `return await self.obtain_token()`
RefreshGet(c) ==
    /\ apc[c] = "refresh_get"
    /\ \/ /\ get_value_token = 0
          /\ EnterObtain(c, "refresh")
          /\ UNCHANGED bearer
       \/ /\ get_value_token # 0
          /\ bearer' = [bearer EXCEPT ![c] = get_value_token]
          /\ apc' = [apc EXCEPT ![c] = "refresh_post"]
          /\ UNCHANGED <<via, o_att>>
    /\ UNCHANGED <<tok, tok_exp, tok_ttl, exp_val, exp_ttl, exp_tok, issued, r_att, token_read,
                   ttl_read, data, last_err, result, sent, status,
                   n_refresh,
                   n_obtain>>
    /\ UNCHANGED beside_auth

\* refresh_token() falling back to obtain_token() on every failure
RefreshPost_FallbackOnAny(c) ==
    /\ apc[c] = "refresh_post"
    /\ sent' = [sent EXCEPT ![c] = @ + 1]
    /\ \/ /\ Provider200(c)
          /\ apc' = [apc EXCEPT ![c] = "refresh_w1"]
          /\ UNCHANGED <<result, via, o_att, r_att, bearer, last_err>>
       \/ /\ \E k \in {"s401", "s500", "transport"} :
                status' = [status EXCEPT ![c] = k]
          /\ EnterObtain(c, "refresh")
          /\ UNCHANGED <<result, r_att, bearer, data, last_err, issued>>
    /\ UNCHANGED <<tok, tok_exp, tok_ttl, exp_val, exp_ttl, exp_tok, token_read, ttl_read,
                   n_refresh, n_obtain>>
    /\ UNCHANGED beside_auth

\* refresh_token() raising on a 401 instead of falling back to obtain_token()
RefreshPost_RaiseOn401(c) ==
    /\ apc[c] = "refresh_post"
    /\ sent' = [sent EXCEPT ![c] = @ + 1]
    /\ \/ /\ Provider200(c)
          /\ apc' = [apc EXCEPT ![c] = "refresh_w1"]
          /\ UNCHANGED <<result, via, o_att, r_att, bearer, last_err>>
       \/ /\ \E k \in {"s401", "s500", "transport"} :
                /\ status' = [status EXCEPT ![c] = k]
                /\ RefreshRaise(c, AuthFailures[k])
          /\ UNCHANGED issued
    /\ UNCHANGED <<tok, tok_exp, tok_ttl, exp_val, exp_ttl, exp_tok, token_read, ttl_read,
                   n_refresh, n_obtain>>
    /\ UNCHANGED beside_auth

\* refresh_token(): POST /api/v1/token/refresh with the bearer token and
\* the dispatch on the status code; a 401 falls back to obtain_token()
RefreshPost(c) ==
    /\ apc[c] = "refresh_post"
    /\ sent' = [sent EXCEPT ![c] = @ + 1]
    /\ \/ /\ Provider200(c)
          /\ apc' = [apc EXCEPT ![c] = "refresh_w1"]
          /\ UNCHANGED <<result, via, o_att, r_att, bearer, last_err>>
       \/ /\ status' = [status EXCEPT ![c] = "s401"]
          /\ EnterObtain(c, "refresh")
          /\ UNCHANGED <<result, r_att, bearer, data, last_err, issued>>
       \/ /\ \E k \in {"s500", "transport"} :
                /\ status' = [status EXCEPT ![c] = k]
                /\ RefreshRaise(c, AuthFailures[k])
          /\ UNCHANGED issued
    /\ UNCHANGED <<tok, tok_exp, tok_ttl, exp_val, exp_ttl, exp_tok, token_read, ttl_read,
                   n_refresh, n_obtain>>
    /\ UNCHANGED beside_auth

\* remaining TTL of a key after d seconds; the key is gone at 0
Remaining(ttl, d) == IF ttl > d THEN ttl - d ELSE 0

\* Time passes: the token key's TTL drops to a lower level (or the key
\* expires) and the expiry key ages by the same number of seconds.
Tick ==
    /\ tok # 0
    /\ \E l \in TTLLevels \cup {0} :
          /\ l < tok_ttl
          /\ tok_ttl' = l
          /\ tok' = IF l = 0 THEN 0 ELSE tok
          /\ tok_exp' = IF l = 0 THEN 0 ELSE tok_exp
          /\ exp_ttl' = Remaining(exp_ttl, tok_ttl - l)
          /\ exp_val' = IF Remaining(exp_ttl, tok_ttl - l) = 0 THEN 0 ELSE exp_val
          /\ exp_tok' = IF Remaining(exp_ttl, tok_ttl - l) = 0 THEN 0 ELSE exp_tok
    /\ UNCHANGED <<issued, apc, via, o_att, r_att, token_read, ttl_read,
                   bearer, data, last_err, result, sent, status,
                   n_refresh, n_obtain>>
    /\ UNCHANGED beside_auth

AuthNext ==
    \/ \E c \in Callers :
          \/ GvtStart(c)
          \/ GvtTtl(c)
          \/ ObtainPost(c)
          \/ WriteToken(c)
          \/ WriteExpiry(c)
          \/ RefreshGet(c)
          \/ RefreshPost(c)
    \/ Tick

(***************************************************************************)
(* The background refresh loop.  It runs obtain_token / refresh_token as   *)
(* the task LoopTask, with the same steps as a get_valid_token caller.     *)
(***************************************************************************)
\* `if original_expiry and original_expiry < 300`
ShortLivedBelow == 300

LoopInit ==
    /\ lpc = "top"
    /\ l_exp = 0
    /\ l_calls = << >>
    /\ l_err = "none"
    /\ shutdown = FALSE

\* the loop awaits self.obtain_token()
LoopCallObtain ==
    /\ EnterObtain(LoopTask, "gvt")
    /\ n_obtain' = [n_obtain EXCEPT ![LoopTask] = 1]
    /\ l_calls' = Append(l_calls, "obtain")
    /\ lpc' = "in_obtain"

\* the loop awaits self.refresh_token()
LoopCallRefresh ==
    /\ r_att' = [r_att EXCEPT ![LoopTask] = 1]
    /\ apc' = [apc EXCEPT ![LoopTask] = "refresh_get"]
    /\ n_obtain' = [n_obtain EXCEPT ![LoopTask] = 0]
    /\ l_calls' = Append(l_calls, "refresh")
    /\ lpc' = "in_refresh"

\* a new iteration: `while not self._shutdown`, token = await get_value(KEY)
\* (the cache may fail); without a token the iteration goes to obtain_token()
LoopTop ==
    /\ lpc = "top"
    /\ ~shutdown
    /\ l_exp' = 0
    /\ ttl_read' = [ttl_read EXCEPT ![LoopTask] = 0]
    /\ result' = [result EXCEPT ![LoopTask] = [kind |-> "none", token |-> 0]]
    /\ sent' = [sent EXCEPT ![LoopTask] = 0]
    /\ status' = [status EXCEPT ![LoopTask] = "none"]
    /\ \/ /\ token_read' = [token_read EXCEPT ![LoopTask] = 0]
          /\ l_err' = "RedisError"
          /\ l_calls' = << >>
          /\ lpc' = "err_sleep"
          /\ UNCHANGED <<apc, via, o_att, n_obtain>>
       \/ /\ get_value_token = 0
          /\ token_read' = [token_read EXCEPT ![LoopTask] = get_value_token]
          /\ l_err' = "none"
          /\ EnterObtain(LoopTask, "gvt")
          /\ n_obtain' = [n_obtain EXCEPT ![LoopTask] = 1]
          /\ l_calls' = <<"obtain">>
          /\ lpc' = "in_obtain"
       \/ /\ get_value_token # 0
          /\ token_read' = [token_read EXCEPT ![LoopTask] = get_value_token]
          /\ l_err' = "none"
          /\ l_calls' = << >>
          /\ lpc' = "ttl"
          /\ UNCHANGED <<apc, via, o_att, n_obtain>>
    /\ UNCHANGED <<tok, tok_exp, tok_ttl, exp_val, exp_ttl, exp_tok, issued, r_att,
                   bearer, data, last_err, n_refresh, shutdown>>
    /\ UNCHANGED beside_loop

\* ttl = await get_ttl(KEY)
LoopTtl ==
    /\ lpc = "ttl"
    /\ ttl_read' = [ttl_read EXCEPT ![LoopTask] = get_ttl_token]
    /\ lpc' = "exp"
    /\ UNCHANGED <<tok, tok_exp, tok_ttl, exp_val, exp_ttl, exp_tok, issued, apc, via,
                   o_att, r_att, token_read, bearer, data, last_err, result,
                   sent, status, n_refresh, n_obtain, l_exp, l_calls, l_err,
                   shutdown>>
    /\ UNCHANGED beside_loop

\* the loop without the test `original_expiry and original_expiry < 300`
LoopExp_NoShortLivedTest ==
    /\ lpc = "exp"
    /\ l_exp' = exp_val
    /\ \/ /\ ttl_read[LoopTask] <= 0
          /\ LoopCallObtain
          /\ UNCHANGED r_att
       \/ /\ ttl_read[LoopTask] > 0
          /\ ttl_read[LoopTask] - RefreshBuffer > 0
          /\ lpc' = "wait"
          /\ UNCHANGED <<apc, via, o_att, r_att, n_obtain, l_calls>>
       \/ /\ ttl_read[LoopTask] > 0
          /\ ~(ttl_read[LoopTask] - RefreshBuffer > 0)
          /\ LoopCallRefresh
          /\ UNCHANGED <<via, o_att>>
    /\ UNCHANGED <<tok, tok_exp, tok_ttl, exp_val, exp_ttl, exp_tok, issued,
                   token_read, ttl_read, bearer, data, last_err, result,
                   sent, status, n_refresh, l_err, shutdown>>
    /\ UNCHANGED beside_loop

\* expires_in_str = await get_value(EXPIRY_KEY) and the three tests on ttl,
\* original_expiry and refresh_at
LoopExp ==
    /\ lpc = "exp"
    /\ l_exp' = exp_val
    /\ \/ /\ ttl_read[LoopTask] <= 0
          /\ LoopCallObtain
          /\ UNCHANGED r_att
       \/ /\ ttl_read[LoopTask] > 0
          /\ exp_val # 0 /\ exp_val < ShortLivedBelow
          /\ LoopCallRefresh
          /\ UNCHANGED <<via, o_att>>
       \/ /\ ttl_read[LoopTask] > 0
          /\ ~(exp_val # 0 /\ exp_val < ShortLivedBelow)
          /\ ttl_read[LoopTask] - RefreshBuffer > 0
          /\ lpc' = "wait"
          /\ UNCHANGED <<apc, via, o_att, r_att, n_obtain, l_calls>>
       \/ /\ ttl_read[LoopTask] > 0
          /\ ~(exp_val # 0 /\ exp_val < ShortLivedBelow)
          /\ ~(ttl_read[LoopTask] - RefreshBuffer > 0)
          /\ LoopCallRefresh
          /\ UNCHANGED <<via, o_att>>
    /\ UNCHANGED <<tok, tok_exp, tok_ttl, exp_val, exp_ttl, exp_tok, issued,
                   token_read, ttl_read, bearer, data, last_err, result,
                   sent, status, n_refresh, l_err, shutdown>>
    /\ UNCHANGED beside_loop

\* the loop ending when a call raises, with no `except Exception` handler
LoopAfterCall_BreakOnError ==
    /\ lpc \in {"in_obtain", "in_refresh"}
    /\ apc[LoopTask] = "done"
    /\ apc' = [apc EXCEPT ![LoopTask] = "idle"]
    /\ IF result[LoopTask].kind \in AuthErrors
         THEN /\ l_err' = result[LoopTask].kind
              /\ lpc' = "ended"
         ELSE /\ l_err' = l_err
              /\ lpc' = IF lpc = "in_obtain" THEN "sleep5" ELSE "sleep60"
    /\ UNCHANGED <<tok, tok_exp, tok_ttl, exp_val, exp_ttl, exp_tok, issued, via,
                   o_att, r_att, token_read, ttl_read, bearer, data, last_err,
                   result, sent, status, n_refresh, n_obtain, l_exp, l_calls,
                   shutdown>>
    /\ UNCHANGED beside_loop

\* obtain_token() or refresh_token() came back to the loop: an exception
\* goes to `except Exception`, a result to the sleep that follows the call
LoopAfterCall ==
    /\ lpc \in {"in_obtain", "in_refresh"}
    /\ apc[LoopTask] = "done"
    /\ apc' = [apc EXCEPT ![LoopTask] = "idle"]
    /\ IF result[LoopTask].kind \in AuthErrors
         THEN /\ l_err' = result[LoopTask].kind
              /\ lpc' = "err_sleep"
         ELSE /\ l_err' = l_err
              /\ lpc' = IF lpc = "in_obtain" THEN "sleep5" ELSE "sleep60"
    /\ UNCHANGED <<tok, tok_exp, tok_ttl, exp_val, exp_ttl, exp_tok, issued, via,
                   o_att, r_att, token_read, ttl_read, bearer, data, last_err,
                   result, sent, status, n_refresh, n_obtain, l_exp, l_calls,
                   shutdown>>
    /\ UNCHANGED beside_loop

\* asyncio.sleep(5) is over: await self.refresh_token()
LoopSleep5 ==
    /\ lpc = "sleep5"
    /\ LoopCallRefresh
    /\ UNCHANGED <<tok, tok_exp, tok_ttl, exp_val, exp_ttl, exp_tok, issued, via,
                   o_att, token_read, ttl_read, bearer, data, last_err,
                   result, sent, status, n_refresh, l_exp, l_err, shutdown>>
    /\ UNCHANGED beside_loop

\* asyncio.sleep(60), sleep(wait_time) or the handler's sleep(30) is over
LoopWake ==
    /\ lpc \in {"wait", "sleep60", "err_sleep"}
    /\ lpc' = "top"
    /\ UNCHANGED <<l_exp, l_calls, l_err, shutdown>>
    /\ UNCHANGED auth_vars
    /\ UNCHANGED beside_loop

\* close(): _shutdown = True, task.cancel(), await the task.  CancelledError
\* is raised at the await the loop is suspended on; no frame of obtain_token
\* or refresh_token handles it, so a cache write being awaited has either
\* reached Redis or not, and the writes after it never happen.
Close ==
    /\ lpc # "ended"
    /\ shutdown' = TRUE
    /\ lpc' = "ended"
    /\ \/ /\ apc[LoopTask] \in {"obtain_w1", "refresh_w1"}
          /\ \/ /\ tok' = data[LoopTask].token
                /\ tok_exp' = data[LoopTask].expires_in
                /\ tok_ttl' = data[LoopTask].expires_in
             \/ UNCHANGED <<tok, tok_exp, tok_ttl>>
          /\ UNCHANGED <<exp_val, exp_ttl, exp_tok>>
       \/ /\ apc[LoopTask] \in {"obtain_w2", "refresh_w2"}
          /\ \/ /\ exp_val' = data[LoopTask].expires_in
                /\ exp_ttl' = data[LoopTask].expires_in
                /\ exp_tok' = data[LoopTask].token
             \/ UNCHANGED <<exp_val, exp_ttl, exp_tok>>
          /\ UNCHANGED <<tok, tok_exp, tok_ttl>>
       \/ /\ apc[LoopTask] \notin {"obtain_w1", "refresh_w1",
                                   "obtain_w2", "refresh_w2"}
          /\ UNCHANGED <<tok, tok_exp, tok_ttl, exp_val, exp_ttl, exp_tok>>
    /\ Finish(LoopTask, "cancelled", 0)
    /\ UNCHANGED <<issued, token_read, ttl_read, sent, status, n_refresh,
                   n_obtain, l_exp, l_calls, l_err>>
    /\ UNCHANGED beside_loop

LoopNext ==
    \/ LoopTop
    \/ LoopTtl
    \/ LoopExp
    \/ LoopAfterCall
    \/ LoopSleep5
    \/ LoopWake
    \/ Close
    \/ ObtainPost(LoopTask)
    \/ WriteToken(LoopTask)
    \/ WriteExpiry(LoopTask)
    \/ RefreshGet(LoopTask)
    \/ RefreshPost(LoopTask)
    \/ Tick

(***************************************************************************)
(* The loop against a provider that answers every request with 200, with   *)
(* time counted in seconds: a sleep and a request let the cache keys age.  *)
(***************************************************************************)
\* asyncio.sleep(5) between obtain_token() and refresh_token()
InitialPause == 5

\* asyncio.sleep(60) after refresh_token()
AfterRefreshPause == 60

\* wait_time = min(refresh_at, 300)
MaxWait == 300

\* settings.facturify_timeout: the longest a request that is answered takes
RequestTimeout == 30

Latencies == {0, RequestTimeout}

\* the two cache keys d seconds later
Elapse(d) ==
    /\ tok_ttl' = Remaining(tok_ttl, d)
    /\ tok' = IF Remaining(tok_ttl, d) = 0 THEN 0 ELSE tok
    /\ tok_exp' = IF Remaining(tok_ttl, d) = 0 THEN 0 ELSE tok_exp
    /\ exp_ttl' = Remaining(exp_ttl, d)
    /\ exp_val' = IF Remaining(exp_ttl, d) = 0 THEN 0 ELSE exp_val
    /\ exp_tok' = IF Remaining(exp_ttl, d) = 0 THEN 0 ELSE exp_tok

Min(a, b) == IF a < b THEN a ELSE b

\* a loop that always sleeps 300 s in the `refresh_at > 0` branch
SleepSeconds_FixedWait == IF lpc = "wait" THEN MaxWait ELSE AfterRefreshPause

\* the sleep the loop is in lasts wait_time = min(ttl - buffer, 300) after
\* the `refresh_at > 0` branch and 60 s after refresh_token()
SleepSeconds ==
    IF lpc = "wait"
      THEN Min(ttl_read[LoopTask] - RefreshBuffer, MaxWait)
      ELSE AfterRefreshPause

\* POST /api/v1/auth or /api/v1/token/refresh answered 200 after up to
\* RequestTimeout seconds: /auth issues 240 s, /token/refresh 43200 s
TimedPost ==
    /\ apc[LoopTask] \in {"obtain_post", "refresh_post"}
    /\ issued < MaxTokens
    /\ sent' = [sent EXCEPT ![LoopTask] = @ + 1]
    /\ data' = [data EXCEPT ![LoopTask] =
                  [token |-> issued + 1,
                   expires_in |-> IF apc[LoopTask] = "obtain_post"
                                    THEN ShortTTL ELSE LongTTL]]
    /\ issued' = issued + 1
    /\ status' = [status EXCEPT ![LoopTask] = "s200"]
    /\ apc' = [apc EXCEPT ![LoopTask] = IF apc[LoopTask] = "obtain_post"
                                          THEN "obtain_w1" ELSE "refresh_w1"]
    /\ \E d \in Latencies : Elapse(d)
    /\ UNCHANGED <<via, o_att, r_att, token_read, ttl_read, bearer,
                   last_err, result, n_refresh, n_obtain>>
    /\ UNCHANGED beside_auth

\* asyncio.sleep(5) is over: await self.refresh_token()
TimedSleep5 ==
    /\ lpc = "sleep5"
    /\ LoopCallRefresh
    /\ Elapse(InitialPause)
    /\ UNCHANGED <<issued, via, o_att, token_read, ttl_read, bearer, data,
                   last_err, result, sent, status, n_refresh, l_exp, l_err,
                   shutdown>>
    /\ UNCHANGED beside_loop

\* asyncio.sleep(60) or asyncio.sleep(wait_time) is over
TimedWake ==
    /\ lpc \in {"wait", "sleep60"}
    /\ lpc' = "top"
    /\ Elapse(SleepSeconds)
    /\ UNCHANGED <<issued, apc, via, o_att, r_att, token_read, ttl_read,
                   bearer, data, last_err, result, sent, status, n_refresh,
                   n_obtain>>
    /\ UNCHANGED <<l_exp, l_calls, l_err, shutdown>>
    /\ UNCHANGED beside_loop

TimedNext ==
    \/ LoopTop /\ l_err' = "none"
    \/ LoopTtl
    \/ LoopExp
    \/ LoopAfterCall
    \/ TimedSleep5
    \/ TimedWake
    \/ TimedPost
    \/ WriteToken(LoopTask)
    \/ WriteExpiry(LoopTask)
    \/ RefreshGet(LoopTask)

(***************************************************************************)
(* Concurrent get_valid_token() callers against a provider that is up:     *)
(* /auth answers 200, /token/refresh answers 200 or, for a bearer token it *)
(* no longer accepts, 401.  No lock orders the tasks.                      *)
(***************************************************************************)
\* a step of task c inside obtain_token / refresh_token
ProviderUpStep(c) ==
    \/ ObtainPost(c) /\ status'[c] = "s200"
    \/ WriteToken(c)
    \/ WriteExpiry(c)
    \/ RefreshGet(c)
    \/ RefreshPost(c) /\ status'[c] \in {"s200", "s401"}

\* a step of a get_valid_token() caller
RacerStep(c) ==
    \/ GvtStart(c)
    \/ GvtTtl(c)
    \/ ProviderUpStep(c)

\* time passes within the life of the cached token
Age == Tick /\ tok' # 0

RaceNext ==
    \/ \E c \in Racers : RacerStep(c)
    \/ Age

(***************************************************************************)
(* The request boundary: the recipient's RFC and zip code on the way from  *)
(* the request body to the clients table and the provider.  Strings are    *)
(* sequences of characters.                                                *)
(***************************************************************************)
\* the classes [A-Z&Ñ], \d and [A-Z0-9] of the two patterns, over the
\* characters the requests below use
RfcLetters == {"A", "X", "Ñ", "&"}

Digits == {"0", "1"}

RfcTail == {"A", "X", "0", "1"}

\* constr(pattern=r"^[A-Z&Ñ]{3,4}\d{6}[A-Z0-9]{3}$")
MatchRfc(s) ==
    /\ Len(s) \in {12, 13}
    /\ \A i \in 1..Len(s) :
          IF i <= Len(s) - 9 THEN s[i] \in RfcLetters
          ELSE IF i <= Len(s) - 3 THEN s[i] \in Digits
          ELSE s[i] \in RfcTail

\* constr(pattern=r"^\d{5}$")
MatchZip(s) == Len(s) = 5 /\ \A i \in 1..5 : s[i] \in Digits

\* String(13) of clients.rfc and String(5) of clients.zip_code
RfcColumn == 13

ZipColumn == 5

\* `payload.receptor.rfc or "XAXX010101000"`, `payload.receptor.cp or "00000"`
GenericRfc == <<"X", "A", "X", "X", "0", "1", "0", "1", "0", "1", "0", "0", "0">>

GenericZip == <<"0", "0", "0", "0", "0">>

RfcInputs ==
    {<<"X", "A", "X", "X", "0", "1", "0", "1", "0", "1", "0", "0", "0">>,
     <<"A", "A", "A", "0", "1", "0", "1", "0", "1", "A", "A", "A">>,
     <<"&", "Ñ", "A", "0", "1", "0", "1", "0", "1", "A", "A", "1">>,
     <<"a", "a", "a">>,
     <<"a", "a", "a", "0", "1", "0", "1", "0", "1", "a", "a", "a">>,
     <<"A", "A", "A", "0", "1", "0", "1", "0", "1", "A", "A", "Ñ">>,
     <<"X", "A", "X", "X", "X", "0", "1", "0", "1", "0", "1", "0", "0", "0">>,
     <<"A", "A", "0", "1", "0", "1", "0", "1", "A", "A", "A">>,
     <<>>}

ZipInputs ==
    {<<"0", "0", "0", "0", "0">>,
     <<"0", "1", "0", "0", "1">>,
     <<"1">>,
     <<"1", "0", "0", "0", "a">>,
     <<"1", "0", "0", "0", "0", "0">>,
     <<>>}

\* ShipmentLocationType.origin / .destination, by value
LocationTypes == {"Origen", "Destino"}

RECURSIVE SeqsUpTo(_, _)
\* the sequences over S of length 0..n
SeqsUpTo(S, n) ==
    IF n = 0 THEN {<< >>}
    ELSE LET shorter == SeqsUpTo(S, n - 1)
         IN  shorter \cup {Append(q, x) : q \in {t \in shorter : Len(t) = n - 1},
                                          x \in S}

\* most locations a request carries
MaxRequestLocs == 2

\* the location types of a request, in order: ShipmentDTO.locations and
\* UbicacionesDTO.Ubicacion are sequences of any length
RequestLocations == SeqsUpTo(LocationTypes, MaxRequestLocs)

NoParty == [rfc |-> << >>, zip |-> << >>]

BoundaryInit ==
    /\ b_path = "none"
    /\ b_rfc = << >>
    /\ b_zip = << >>
    /\ b_known = FALSE
    /\ b_pc = "idle"
    /\ b_party = NoParty
    /\ b_saved = FALSE
    /\ b_called = FALSE
    /\ b_locs = << >>
    /\ b_shipment = << >>
    /\ b_invoice = FALSE

\* a request is posted to one of the two create endpoints
Receive ==
    /\ b_pc = "idle"
    /\ b_path' \in Paths
    /\ b_rfc' \in RfcInputs
    /\ b_zip' \in ZipInputs
    /\ b_known' \in BOOLEAN
    /\ b_locs' \in RequestLocations
    /\ b_pc' = "received"
    /\ UNCHANGED <<b_party, b_saved, b_called, b_shipment, b_invoice>>
    /\ UNCHANGED beside_dto

\* what the request body model of the endpoint accepts: CartaPorteRequest
\* holds a PartyDTO with the two patterns, FacturifyCartaPorteRequest a
\* ReceptorDTO whose rfc and cp are `str | None`
Accepts(p, r, z) ==
    IF p = "execute" THEN MatchRfc(r) /\ MatchZip(z) ELSE TRUE

\* FastAPI parses the body: 422 to the caller when the model rejects it
Validate ==
    /\ b_pc = "received"
    /\ b_pc' = IF Accepts(b_path, b_rfc, b_zip) THEN "accepted" ELSE "rejected"
    /\ UNCHANGED <<b_path, b_rfc, b_zip, b_known, b_party, b_saved, b_called>>
    /\ UNCHANGED <<b_locs, b_shipment, b_invoice>>
    /\ UNCHANGED beside_dto

\* the RFC and zip code the endpoint goes on with
RecipientRfc ==
    IF b_path = "facturify" /\ b_rfc = << >> THEN GenericRfc ELSE b_rfc

RecipientZip ==
    IF b_path = "facturify" /\ b_zip = << >> THEN GenericZip ELSE b_zip

\* get_by_rfc(...); `if recipient is None:` a Party is built from the
\* request's values
BuildParty ==
    /\ b_pc = "accepted"
    /\ IF b_known
         THEN /\ b_pc' = "found"
              /\ UNCHANGED b_party
         ELSE /\ b_pc' = "built"
              /\ b_party' = [rfc |-> RecipientRfc, zip |-> RecipientZip]
    /\ UNCHANGED <<b_path, b_rfc, b_zip, b_known, b_saved, b_called>>
    /\ UNCHANGED <<b_locs, b_shipment, b_invoice>>
    /\ UNCHANGED beside_dto

\* clients.upsert(party) and the commit: the insert fails when a value
\* does not fit its column
SaveParty ==
    /\ b_pc = "built"
    /\ IF Len(b_party.rfc) > RfcColumn \/ Len(b_party.zip) > ZipColumn
         THEN /\ b_pc' = "db_error"
              /\ UNCHANGED b_saved
         ELSE /\ b_pc' = "saved"
              /\ b_saved' = TRUE
    /\ UNCHANGED <<b_path, b_rfc, b_zip, b_known, b_party, b_called>>
    /\ UNCHANGED <<b_locs, b_shipment, b_invoice>>
    /\ UNCHANGED beside_dto

\* the Shipment is built from the request's locations, one ShipmentLocation
\* per entry and in the request's order, and the invoice that holds it is
\* inserted: by execute() before the provider is called, by the
\* provider-format endpoint after it
PersistInvoice ==
    /\ \/ b_path = "execute" /\ b_pc \in {"found", "saved"}
       \/ b_path = "facturify" /\ b_pc = "called"
    /\ b_shipment' = <<[locations |-> b_locs]>>
    /\ b_invoice' = TRUE
    /\ b_pc' = IF b_path = "execute" THEN "persisted" ELSE "done"
    /\ UNCHANGED <<b_path, b_rfc, b_zip, b_known, b_party, b_saved, b_called>>
    /\ UNCHANGED b_locs
    /\ UNCHANGED beside_dto

\* the provider is called with the request's data
CallProvider ==
    /\ \/ b_path = "execute" /\ b_pc = "persisted"
       \/ b_path = "facturify" /\ b_pc \in {"found", "saved"}
    /\ b_pc' = "called"
    /\ b_called' = TRUE
    /\ UNCHANGED <<b_path, b_rfc, b_zip, b_known, b_party, b_saved>>
    /\ UNCHANGED <<b_locs, b_shipment, b_invoice>>
    /\ UNCHANGED beside_dto

BoundaryNext ==
    \/ Receive
    \/ Validate
    \/ BuildParty
    \/ SaveParty
    \/ PersistInvoice
    \/ CallProvider

(***************************************************************************)
(* Pure functions of the domain and the mappers.  A function is applied in *)
(* two steps: an argument is drawn, then the function returns or raises.   *)
(***************************************************************************)
NotYet == [state |-> "pending"]

FnInit ==
    /\ f_op = "none"
    /\ f_in = NoneV
    /\ f_out = NotYet

\* f is called with argument x
Call(f, x) ==
    /\ f_op = "none"
    /\ f_op' = f
    /\ f_in' = x
    /\ f_out' = NotYet
    /\ UNCHANGED beside_fn

\* the call of f ends with the value or exception y
Return(f, y) ==
    /\ f_op = f
    /\ f_out = NotYet
    /\ f_out' = y
    /\ UNCHANGED <<f_op, f_in>>
    /\ UNCHANGED beside_fn

\* the classes an exception is an instance of
ExceptionBases ==
    [ValueError |-> {"ValueError", "Exception"},
     BillingError |-> {"BillingError", "RuntimeError", "Exception"},
     EntityNotFound |-> {"EntityNotFound", "BillingError", "RuntimeError",
                         "Exception"},
     ExternalServiceError |-> {"ExternalServiceError", "BillingError",
                               "RuntimeError", "Exception"},
     ValidationError |-> {"ValidationError", "BillingError", "RuntimeError",
                          "Exception"}]

(***************************************************************************)
(* Money.  Amounts are whole numbers here; the constructor only compares   *)
(* the amount with 0.                                                      *)
(***************************************************************************)
\* largest amount, in absolute value, a Money is built with
MaxAmount == 30

Currencies == {"MXN", "USD"}

\* Money(amount, currency): __post_init__ raises on a negative amount
Money(amount, currency) ==
    IF amount < 0
      THEN [state |-> "raised", exception |-> "ValueError",
            message |-> "El monto no puede ser negativo"]
      ELSE [state |-> "returned",
            value |-> [amount |-> amount, currency |-> currency]]

MoneyCall ==
    \E a \in (-MaxAmount)..MaxAmount : \E c \in Currencies :
        Call("Money", [amount |-> a, currency |-> c])

MoneyReturn == Return("Money", Money(f_in.amount, f_in.currency))

MoneyNext ==
    \/ MoneyCall
    \/ MoneyReturn

(***************************************************************************)
(* FacturifyPayloadBuilder: the Ubicacion list of the CartaPorte block.    *)
(* A location is its type; text is a sequence of characters.               *)
(***************************************************************************)
\* most locations a shipment is built with
MaxLocs == 5

DigitChars == <<"0", "1", "2", "3", "4", "5", "6", "7", "8", "9">>

RECURSIVE DecimalDigits(_)
\* str(n) for n >= 0
DecimalDigits(n) ==
    IF n < 10 THEN <<DigitChars[n + 1]>>
    ELSE Append(DecimalDigits(n \div 10), DigitChars[(n % 10) + 1])

RECURSIVE ZeroPad(_, _)
\* the format spec 0<w>d: zeros on the left up to width w, never cut
ZeroPad(t, w) == IF Len(t) >= w THEN t ELSE ZeroPad(<<"0">> \o t, w)

\* the width in f"{index-1:06d}"
IdWidth == 6

\* str.capitalize() on the values of ShipmentLocationType
Capitalize == [Origen |-> "Origen", Destino |-> "Destino"]

\* _ubicacion() numbering from 1: index instead of index - 1
ubicacion_OneBased(index, location) ==
    [TipoUbicacion |-> Capitalize[location],
     IDUbicacion |-> (IF location = "Origen" THEN <<"O", "R">>
                                             ELSE <<"D", "E">>)
                     \o ZeroPad(DecimalDigits(index), IdWidth)]

\* _ubicacion(index, location, ...): TipoUbicacion and IDUbicacion
ubicacion(index, location) ==
    [TipoUbicacion |-> Capitalize[location],
     IDUbicacion |-> (IF location = "Origen" THEN <<"O", "R">>
                                             ELSE <<"D", "E">>)
                     \o ZeroPad(DecimalDigits(index - 1), IdWidth)]

\* [self._ubicacion(idx, location, ...) for idx, location in
\*  enumerate(shipment.locations, start=1)]
ubicaciones(locations) ==
    [idx \in 1..Len(locations) |-> ubicacion(idx, locations[idx])]

UbicacionesCall ==
    \E locations \in SeqsUpTo(LocationTypes, MaxLocs) :
        Call("ubicaciones", locations)

UbicacionesReturn ==
    Return("ubicaciones", [state |-> "returned", value |-> ubicaciones(f_in)])

UbicacionesNext ==
    \/ UbicacionesCall
    \/ UbicacionesReturn

(***************************************************************************)
(* FacturifyPayloadBuilder._concepto.  Quantities are whole units, unit    *)
(* prices thousandths, emitted amounts hundredths, rates hundredths (the   *)
(* percentage over 100).  An optional value is a sequence of length 0 or   *)
(* 1.                                                                      *)
(***************************************************************************)
\* largest quantity of an invoice item
MaxQty == 3

\* unit prices, in thousandths: 0.001, 0.005, 0.034, 0.335, 1.000, 9.999,
\* 50.000 and 123.456
UnitPrices == {1, 5, 34, 335, 1000, 9999, 50000, 123456}

\* tax_percentage of the request item: absent, 0, 8 or 16 percent
TaxPercentages == {<< >>, <<0>>, <<8>>, <<16>>}

\* round(n / d) with ties to the even neighbour
RoundHalfEven(n, d) ==
    LET q == n \div d
        r == n % d
    IN  IF 2 * r < d THEN q
        ELSE IF 2 * r > d THEN q + 1
        ELSE IF q % 2 = 0 THEN q ELSE q + 1

\* taxes={"iva": item.tax_percentage} if item.tax_percentage else None
taxes_from_dto(tax_percentage) ==
    IF tax_percentage # << >> /\ tax_percentage[1] # 0
      THEN tax_percentage ELSE << >>

\* InvoiceItem(...) in _invoice_from_payload
item_from_dto(dto) ==
    [quantity |-> dto.quantity, unit_price |-> dto.unit_price,
     taxes |-> taxes_from_dto(dto.tax_percentage)]

\* _concepto(item): `if item.taxes and item.taxes.get("iva")` adds the
\* impuestos block with one traslado
concepto(item) ==
    [cantidad |-> item.quantity,
     valor_unitario |-> item.unit_price,
     total |-> RoundHalfEven(item.quantity * item.unit_price, 10),
     impuestos |->
        IF item.taxes # << >> /\ item.taxes[1] # 0
          THEN <<[base |-> RoundHalfEven(item.quantity * item.unit_price, 10),
                  tasaOCuota |-> item.taxes[1],
                  importe |-> RoundHalfEven(
                      item.quantity * item.unit_price * item.taxes[1],
                      1000)]>>
          ELSE << >>]

ConceptoCall ==
    \E q \in 1..MaxQty : \E u \in UnitPrices : \E t \in TaxPercentages :
        Call("concepto", [quantity |-> q, unit_price |-> u,
                          tax_percentage |-> t])

ConceptoReturn ==
    Return("concepto",
           [state |-> "returned", value |-> concepto(item_from_dto(f_in))])

ConceptoNext ==
    \/ ConceptoCall
    \/ ConceptoReturn

(***************************************************************************)
(* Round trip: FacturifyPayloadBuilder.build, the parse of its payload as  *)
(* a FacturifyCartaPorteRequest, and FacturifyToInternalTransformer.       *)
(* An invoice is the fields the three steps treat differently; an optional *)
(* value or dict key is a sequence of length 0 or 1.                       *)
(***************************************************************************)
\* most locations of an invoice sent through the round trip
MaxTripLocs == 2

\* Shipment.permit_type of the invoices
PermitType == "TPAF01"

Invoices ==
    [external_uuid : {<< >>, <<"uuid-r">>},
     figures : {<< >>, <<"fig">>},
     federal_permit : {<< >>, <<PermitType>>, <<"SCT-9">>},
     insurance_company : {<< >>, <<"AXA">>},
     iva : {<< >>, <<16>>},
     locations : SeqsUpTo(LocationTypes, MaxTripLocs)]

\* build(invoice, issuer): the receptor block is {"uuid": ...} only when the
\* recipient has an external_uuid, else _receptor() with no uuid key; the
\* FiguraTransporte key is dropped when the shipment has no figures;
\* PermSCT is the shipment's permit_type; absent insurance becomes ""
build(invoice) ==
    [receptor_uuid |-> invoice.external_uuid,
     impuestos |-> IF invoice.iva # << >> /\ invoice.iva[1] # 0
                     THEN <<[impuesto |-> "002", tasaOCuota |-> invoice.iva[1]]>>
                     ELSE << >>,
     Ubicacion |-> [k \in 1..Len(invoice.locations) |->
                       ubicacion(k, invoice.locations[k]).TipoUbicacion],
     PermSCT |-> PermitType,
     AseguraRespCivil |-> IF invoice.insurance_company # << >>
                            THEN invoice.insurance_company[1] ELSE "",
     FiguraTransporte |-> IF invoice.figures # << >>
                            THEN <<invoice.figures>> ELSE << >>]

\* FacturifyCartaPorteRequest(**payload): ReceptorDTO.uuid and
\* CartaPorteComplementoDTO.FiguraTransporte are required fields
Parses(payload) ==
    /\ payload.receptor_uuid # << >>
    /\ payload.FiguraTransporte # << >>

\* transform(request): needs Ubicacion[0]; federal_permit is read from
\* PermSCT; the iva percentage is tasaOCuota * 100 of the first 002 block
transform(payload) ==
    IF Len(payload.Ubicacion) = 0
      THEN [state |-> "raised", exception |-> "IndexError"]
      ELSE [state |-> "returned",
            value |-> [iva |-> IF payload.impuestos # << >>
                                 THEN <<payload.impuestos[1].tasaOCuota>>
                                 ELSE << >>,
                       locations |-> [k \in 1..Len(payload.Ubicacion) |->
                                         payload.Ubicacion[k]],
                       federal_permit |-> <<payload.PermSCT>>,
                       insurance_company |-> <<payload.AseguraRespCivil>>,
                       figures |-> payload.FiguraTransporte[1]]]

\* build, parse, transform
round_trip(invoice) ==
    IF Parses(build(invoice))
      THEN transform(build(invoice))
      ELSE [state |-> "raised", exception |-> "pydantic.ValidationError"]

RoundTripCall == \E invoice \in Invoices : Call("round_trip", invoice)

RoundTripReturn == Return("round_trip", round_trip(f_in))

RoundTripNext ==
    \/ RoundTripCall
    \/ RoundTripReturn

(***************************************************************************)
(* Provider responses.  A text is a sequence of pieces; a piece is plain   *)
(* text, a parenthesis "(SAT: ...)" or any other parenthesis "(...)".      *)
(***************************************************************************)
Piece(k, b) == [kind |-> k, body |-> b]

\* the "message" values of a provider body
Messages ==
    {<<Piece("text", "rechazado")>>,
     <<Piece("text", "rechazado"), Piece("sat", "CP no registrado")>>,
     <<Piece("text", "rechazado"), Piece("paren", "ref 12")>>,
     <<Piece("paren", "ref 12"), Piece("sat", "CP no registrado")>>}

SAT_ERROR_MESSAGES ==
    [CFDI40147 |->
        "El codigo postal del receptor no esta registrado en el SAT"]

\* the "code" values of a provider body: unknown, known to the table, numeric
Codes == {"", "CFDI40147", "33"}

\* the "errors" lists of a provider body
ErrorLists ==
    {<<>>, <<[field |-> "factura.serie", message |-> "no existe"]>>}

\* an absent key is <<>>, a present one <<value>>
ResponseBodies ==
    [success : {<<>>, <<TRUE>>, <<FALSE>>},
     code : Codes,
     message : {<<>>} \cup {<<m>> : m \in Messages},
     errors : {<<>>} \cup {<<l>> : l \in ErrorLists}]

\* the provider answers 200, 400 or 422
HttpResponses == [status_code : {200, 400, 422}, body : ResponseBodies]

\* error_data.get(key, default)
Get(opt, default) == IF opt = <<>> THEN default ELSE opt[1]

\* the first "(SAT: ...)" of the message, else its first parenthesis
_extract_sat_message(message) ==
    LET sat == {i \in DOMAIN message : message[i].kind = "sat"}
        par == {i \in DOMAIN message : message[i].kind \in {"sat", "paren"}}
        first(S) == CHOOSE i \in S : \A j \in S : i <= j
    IN  IF sat # {} THEN <<message[first(sat)].body>>
        ELSE IF par # {} THEN <<message[first(par)].body>>
        ELSE <<>>

_build_user_message(sat_message, friendly_message, original_message) ==
    IF friendly_message # ""
      THEN IF sat_message # <<>>
             THEN <<Piece("text", friendly_message),
                    Piece("text", ". Detalle: "),
                    Piece("text", sat_message[1])>>
             ELSE <<Piece("text", friendly_message)>>
      ELSE IF sat_message # <<>>
             THEN <<Piece("text", "Error del SAT: "),
                    Piece("text", sat_message[1])>>
             ELSE original_message

RECURSIVE ErrorDetails(_)
ErrorDetails(errors) ==
    IF errors = <<>> THEN <<>>
    ELSE <<Piece("text", "\n* "), Piece("text", errors[1].field),
           Piece("text", ": "), Piece("text", errors[1].message)>>
         \o ErrorDetails(Tail(errors))

_parse_validation_error(error_data) ==
    LET main_message ==
            Get(error_data.message, <<Piece("text", "Error de validacion")>>)
        errors == error_data.errors[1]
    IN  [error_code |-> error_data.code,
         user_message |->
            IF errors # <<>>
              THEN main_message \o <<Piece("text", ":")>>
                   \o ErrorDetails(errors)
              ELSE main_message]

\* parse_error of a body that is already a dict
parse_error(error_data) ==
    IF error_data.errors # <<>>
      THEN _parse_validation_error(error_data)
      ELSE LET message == Get(error_data.message, <<>>)
               code == error_data.code
               friendly_message ==
                   IF code \in DOMAIN SAT_ERROR_MESSAGES
                     THEN SAT_ERROR_MESSAGES[code] ELSE ""
           IN  [error_code |-> code,
                user_message |->
                   _build_user_message(_extract_sat_message(message),
                                       friendly_message, message)]

\* what the exception of raise_for_status carries: the body as received
ResponseText == <<Piece("response.text", "")>>

_handle_response(response) ==
    IF ~ Get(response.body.success, TRUE)
      THEN [state |-> "raised", exception |-> "ExternalServiceError",
            message |-> parse_error(response.body).user_message]
      ELSE IF response.status_code >= 400
             THEN [state |-> "raised", exception |-> "ExternalServiceError",
                   message |-> ResponseText]
             ELSE [state |-> "returned", value |-> response.body]

HandleResponseCall ==
    \E r \in HttpResponses : Call("_handle_response", r)

HandleResponseReturn == Return("_handle_response", _handle_response(f_in))

HandleResponseNext ==
    \/ HandleResponseCall
    \/ HandleResponseReturn

Init == FlowInit /\ AuthInit /\ LoopInit /\ BoundaryInit /\ FnInit

Next == FlowNext

Spec == Init /\ [][Next]_vars

SpecAuth == Init /\ [][AuthNext]_vars

SpecLoop == Init /\ [][LoopNext]_vars

SpecTimed == Init /\ [][TimedNext]_vars

SpecRace == Init /\ [][RaceNext]_vars

SpecBoundary == Init /\ [][BoundaryNext]_vars

SpecMoney == Init /\ [][MoneyNext]_vars

SpecUbicaciones == Init /\ [][UbicacionesNext]_vars

SpecConcepto == Init /\ [][ConceptoNext]_vars

SpecRoundTrip == Init /\ [][RoundTripNext]_vars

SpecHandleResponse == Init /\ [][HandleResponseNext]_vars

(***************************************************************************)
(* Claims about the create flows (specification Spec).                     *)
(***************************************************************************)
Range(h) == {h[i] : i \in DOMAIN h}

IsPrefix(h, chain) ==
    /\ Len(h) <= Len(chain)
    /\ \A i \in DOMAIN h : h[i] = chain[i]

\* h follows draft -> pending -> last, possibly starting at pending
OnChain(h, last) ==
    \/ IsPrefix(h, <<"draft", "pending", last>>)
    \/ IsPrefix(h, <<"pending", last>>)

\* C1: on both create flows the provider's create call for an invoice is
\* in flight only when that invoice is already persisted (committed) with
\* status pending.
C1_CallOnlyAfterPendingPersisted ==
    \A r \in Reqs : pc[r] = "in_flight" => db_inv[r].status = "pending"

\* C2: the statuses an invoice takes in memory are a prefix of
\* draft -> pending -> issued or of draft -> pending -> failed, and the
\* statuses written to its row follow the same chain: pending is never
\* skipped and nothing follows issued or failed.
C2_StatusChain ==
    \A r \in Reqs :
        /\ \/ IsPrefix(hist[r], <<"draft", "pending", "issued">>)
           \/ IsPrefix(hist[r], <<"draft", "pending", "failed">>)
        /\ OnChain(db_hist[r], "issued") \/ OnChain(db_hist[r], "failed")

\* the first non-empty UUID among data.cfdi_uuid, the top-level cfdi_uuid
\* and data.cfdi.cfdi_uuid, as the claim reads the response
FirstUuid(s) ==
    IF s.d_uuid # NoneV THEN s.d_uuid
    ELSE IF s.top # NoneV THEN s.top
    ELSE s.c_uuid

\* C3: in execute(), once the provider call has returned a response and
\* the call has ended, the invoice is issued exactly when one of the three
\* places holds a non-empty UUID (the first in order, stored with the
\* response and the metadata of data) and failed otherwise, and the row
\* holds that final status.
C3_IssuedIffUuidFound ==
    \A r \in Reqs :
        (path[r] = "execute" /\ resp[r] # NoResp /\ pc[r] = "done") =>
            /\ FirstUuid(resp[r]) # NoneV =>
                  inv[r] = [status |-> "issued",
                            facturify_uuid |-> FirstUuid(resp[r]),
                            facturify_response |-> resp[r],
                            remit |-> DataRemit(resp[r])]
            /\ FirstUuid(resp[r]) = NoneV => inv[r].status = "failed"
            /\ db_inv[r].status = inv[r].status
            /\ db_inv[r].facturify_uuid = inv[r].facturify_uuid

\* C4: in execute(), when the try block raised, the invoice is marked
\* failed in a new unit of work, the row ends failed, the caller gets
\* ExternalServiceError, and the invoice is never issued.
C4_ExceptionMarksFailed ==
    \A r \in Reqs :
        (path[r] = "execute" /\ exc[r] # "none") =>
            /\ pc[r] \in {"handle_exc", "commit_exc", "done"}
            /\ "issued" \notin Range(hist[r]) \cup Range(db_hist[r])
            /\ pc[r] = "handle_exc" => ~tx_open[r] /\ db_inv[r].status = "pending"
            /\ pc[r] = "commit_exc" =>
                  /\ tx_open[r]
                  /\ inv[r].status = "failed"
                  /\ tx_inv[r].status = "failed"
            /\ pc[r] = "done" =>
                  /\ outcome[r] = "ExternalServiceError"
                  /\ inv[r].status = "failed"
                  /\ db_inv[r].status = "failed"
                  /\ ~tx_open[r]

C4_Witness ==
    \E r \in Reqs :
        /\ path[r] = "execute"
        /\ exc[r] = "RequestError"
        /\ pc[r] = "done"
        /\ db_inv[r].status = "failed"

\* C5: an execute() call that committed its invoice as pending has left
\* the row issued or failed when it ends, however it ends.
C5_NoPendingLeft ==
    \A r \in Reqs :
        (path[r] = "execute" /\ pc[r] = "done" /\ db_inv[r] # NoRow) =>
            db_inv[r].status \in {"issued", "failed"}

\* C6: while a request's provider call is in flight the request holds no
\* open unit of work and no uncommitted write; in execute() the invoice row
\* was committed before, and the unit of work that records the outcome is
\* open only once the call has returned or raised.
C6_NoTxDuringCall ==
    \A r \in Reqs :
        /\ pc[r] = "in_flight" =>
              /\ ~tx_open[r]
              /\ tx_inv[r] = NoRow
              /\ tx_client[r] = "none"
              /\ path[r] = "execute" => db_inv[r].status = "pending"
        /\ (tx_open[r] /\ pc[r] \notin {"get_by_rfc", "upsert_select",
                                        "upsert_flush", "create", "commit1"})
              => (resp[r] # NoResp \/ exc[r] # "none")

C6_Witness ==
    \E r \in Reqs : \E q \in Reqs :
        /\ pc[r] = "in_flight" /\ path[r] = "execute"
        /\ tx_open[q] /\ pc[q] = "update"

\* C7: an invoice whose status is issued, in memory, in an open session or
\* in the committed row, has a non-empty facturify_uuid.
C7_IssuedHasUuid ==
    \A r \in Reqs :
        /\ inv[r].status = "issued" => inv[r].facturify_uuid # NoneV
        /\ tx_inv[r].status = "issued" => tx_inv[r].facturify_uuid # NoneV
        /\ db_inv[r].status = "issued" => db_inv[r].facturify_uuid # NoneV

C7_Witness ==
    \E r \in Reqs : \E q \in Reqs :
        /\ path[r] = "execute" /\ db_inv[r].status = "issued"
        /\ path[q] = "facturify" /\ db_inv[q].status = "issued"

\* C8: every issued invoice, on either create flow, holds the provider
\* response that carried its UUID, in memory and in its row.
C8_IssuedStoresResponse ==
    \A r \in Reqs :
        /\ inv[r].status = "issued" => inv[r].facturify_response # NoResp
        /\ db_inv[r].status = "issued" => db_inv[r].facturify_payload # NoResp

(***************************************************************************)
(* Claims about the token manager (specification SpecAuth).                *)
(***************************************************************************)
\* C9 as stated: get_valid_token() returns the cached token without any
\* request to the provider exactly when a token is cached and its TTL
\* exceeds the refresh buffer; in every other case it invokes
\* refresh_token() exactly once and, unless that raises, returns the token
\* refresh produced.
C9_CachedIffTtlExceedsBuffer ==
    \A c \in Callers :
        apc[c] = "done" =>
            LET fresh == token_read[c] # 0 /\ ttl_read[c] > RefreshBuffer
            IN  /\ fresh <=> (result[c].kind = "cached" /\ sent[c] = 0)
                /\ ~fresh =>
                      /\ n_refresh[c] = 1
                      /\ result[c].kind \in {"refreshed"} \cup AuthErrors

\* C9 amended: without a cached token get_valid_token() calls
\* obtain_token() once and refresh_token() not at all; with a cached token
\* it returns that token, sending nothing, exactly when the TTL it read is
\* not below the refresh buffer, and otherwise invokes refresh_token()
\* exactly once; a call that went to the provider returns the new token it
\* got there or raises the auth error.
C9_CachedIffTtlNotBelowBuffer ==
    \A c \in Callers :
        /\ apc[c] = "gvt_ttl" => sent[c] = 0 /\ token_read[c] # 0
        /\ apc[c] = "done" =>
              /\ result[c].kind = "cached" <=>
                    (token_read[c] # 0 /\ ttl_read[c] >= RefreshBuffer)
              /\ result[c].kind = "cached" =>
                    /\ sent[c] = 0
                    /\ n_refresh[c] = 0
                    /\ n_obtain[c] = 0
                    /\ result[c].token = token_read[c]
              /\ token_read[c] = 0 =>
                    /\ n_obtain[c] = 1
                    /\ n_refresh[c] = 0
                    /\ result[c].kind \in {"obtained"} \cup AuthErrors
              /\ (token_read[c] # 0 /\ ttl_read[c] < RefreshBuffer) =>
                    /\ n_refresh[c] = 1
                    /\ n_obtain[c] = 0
                    /\ result[c].kind \in {"refreshed"} \cup AuthErrors
              /\ result[c].kind \in {"obtained", "refreshed"} =>
                    /\ sent[c] >= 1
                    /\ status[c] = "s200"
                    /\ result[c].token # 0
                    /\ result[c].token # token_read[c]
              /\ result[c].kind \in AuthErrors =>
                    sent[c] >= 1 /\ result[c].token = 0

C9_Witness ==
    \E c \in Callers :
        /\ apc[c] = "done"
        /\ token_read[c] # 0
        /\ ttl_read[c] = BelowBuffer
        /\ result[c].kind = "refreshed"
        /\ n_refresh[c] = 1

\* the error that left the body of obtain_token in the step just taken
RaisedNext(c) == IF apc'[c] = "done" THEN result'[c].kind ELSE last_err'[c]

\* C10: a step of obtain_token() that posts to /auth and gets 200 goes on
\* to write the response's token under its expires_in and then the expiry
\* key, and returns that response; a step that gets anything else leaves
\* the token key, the expiry key and both TTLs as they were and raises the
\* auth error of that outcome (401: the provider's message, 422: the field
\* messages).
C10_ObtainToken ==
    [][\A c \in Callers :
          /\ (apc[c] = "obtain_post" /\ sent'[c] # sent[c]) =>
                /\ UNCHANGED <<tok, tok_ttl, exp_val, exp_ttl, exp_tok>>
                /\ status'[c] = "s200" =>
                      /\ apc'[c] = "obtain_w1"
                      /\ data'[c].token # 0
                      /\ data'[c].expires_in \in IssuedTTLs
                /\ status'[c] # "s200" =>
                      /\ status'[c] \in DOMAIN AuthFailures
                      /\ apc'[c] # "obtain_w1"
                      /\ RaisedNext(c) = AuthFailures[status'[c]]
          /\ (apc[c] = "obtain_w1" /\ apc'[c] # apc[c]) =>
                /\ apc'[c] = "obtain_w2"
                /\ tok' = data[c].token
                /\ tok_ttl' = data[c].expires_in
          /\ (apc[c] = "obtain_w2" /\ apc'[c] # apc[c]) =>
                /\ exp_val' = data[c].expires_in
                /\ exp_ttl' = data[c].expires_in
                /\ apc'[c] = "done"
                /\ result'[c].kind \in {"obtained", "refreshed"}
                /\ result'[c].token = data[c].token
      ]_vars

C10_Witness ==
    \E c \in Callers :
        /\ apc[c] = "done"
        /\ status[c] = "s401"
        /\ result[c].kind = AuthFailures["s401"]
        /\ tok # 0
        /\ tok_ttl = BelowBuffer

\* C11: one invocation of obtain_token() or of refresh_token(), made by a
\* get_valid_token() call in any cache state, sends at most 3 requests to
\* the provider, also when refresh_token() goes through obtain_token().
C11_AtMostThreeRequests ==
    \A c \in Callers : sent[c] <= ObtainAttempts

\* C12: refresh_token() without a cached token goes to obtain_token(); with
\* one it posts to the refresh endpoint with that token as bearer; a 200 is
\* followed by the write of the new token and of its expires_in; a 401
\* goes to obtain_token() without raising; any other outcome raises the
\* auth error of that outcome; the post itself never changes the cache.
C12_RefreshToken ==
    [][\A c \in Callers :
          /\ (apc[c] = "refresh_get" /\ apc'[c] # apc[c]) =>
                /\ UNCHANGED <<tok, tok_ttl, exp_val, exp_ttl, exp_tok, sent>>
                /\ tok = 0 => apc'[c] = "obtain_post" /\ via'[c] = "refresh"
                /\ tok # 0 => apc'[c] = "refresh_post" /\ bearer'[c] = tok
          /\ (apc[c] = "refresh_post" /\ sent'[c] # sent[c]) =>
                /\ bearer[c] # 0
                /\ UNCHANGED <<tok, tok_ttl, exp_val, exp_ttl, exp_tok>>
                /\ status'[c] = "s200" =>
                      /\ apc'[c] = "refresh_w1"
                      /\ data'[c].token # 0
                /\ status'[c] = "s401" =>
                      /\ apc'[c] = "obtain_post"
                      /\ via'[c] = "refresh"
                      /\ last_err'[c] = last_err[c]
                      /\ result'[c] = result[c]
                /\ status'[c] \notin {"s200", "s401"} =>
                      /\ status'[c] \in DOMAIN AuthFailures
                      /\ apc'[c] \in {"refresh_get", "done"}
                      /\ RaisedNext(c) = AuthFailures[status'[c]]
          /\ (apc[c] = "refresh_w1" /\ apc'[c] # apc[c]) =>
                /\ apc'[c] = "refresh_w2"
                /\ tok' = data[c].token
                /\ tok_ttl' = data[c].expires_in
          /\ (apc[c] = "refresh_w2" /\ apc'[c] # apc[c]) =>
                /\ exp_val' = data[c].expires_in
                /\ exp_ttl' = data[c].expires_in
                /\ apc'[c] = "done"
                /\ result'[c] = [kind |-> "refreshed", token |-> data[c].token]
      ]_vars

C12_Witness ==
    \E c \in Callers :
        /\ apc[c] = "obtain_post"
        /\ via[c] = "refresh"
        /\ status[c] = "s401"
        /\ bearer[c] # 0
        /\ tok = bearer[c]
        /\ sent[c] = 1

\* C18: after any interleaving of create requests, also with the same
\* recipient RFC, the clients table holds at most one committed record per
\* RFC (and holds one exactly when the RFC is known).
C18_OneRecordPerRfc ==
    \A x \in RFCs :
        /\ rows[x] <= 1
        /\ rows[x] = 0 <=> clients[x] = "none"

C18_Witness ==
    \E r \in Reqs : \E q \in Reqs \ {r} :
        /\ rfc[r] = "BBB010101BBB" /\ rfc[q] = "BBB010101BBB"
        /\ ~saw[r] /\ ~saw[q]
        /\ pc[r] = "done" /\ pc[q] = "done"
        /\ outcome[q] = "IntegrityError"
        /\ rows["BBB010101BBB"] = 1

\* C19: for any interleaving of two execute() calls, each call that has
\* ended has persisted its own invoice and did not fail on the other
\* call's recipient record.
C19_ConcurrentCallsTolerated ==
    \A r \in Reqs :
        (path[r] = "execute" /\ pc[r] = "done") =>
            /\ outcome[r] # "IntegrityError"
            /\ db_inv[r] # NoRow
(***************************************************************************)
(* Claims about the background refresh loop.                               *)
(***************************************************************************)
\* errors an iteration of the loop can end with
LoopErrors == AuthErrors \cup {"RedisError"}

\* C13: the background loop never terminates on a failure.  The loop ends
\* only in a step of close(); an iteration whose call raised an error, or
\* whose cache read failed, goes to the handler's sleep and keeps its
\* error; and the only step out of that sleep (other than close()) starts
\* another iteration.
C13_LoopSurvivesFailures ==
    [][/\ (lpc # "ended" /\ lpc' = "ended") => (~shutdown /\ shutdown')
       /\ (/\ lpc \in {"in_obtain", "in_refresh"}
           /\ apc[LoopTask] = "done"
           /\ result[LoopTask].kind \in LoopErrors
           /\ lpc' # lpc
           /\ ~shutdown')
            => (lpc' = "err_sleep" /\ l_err' = result[LoopTask].kind)
       /\ (l_err' \in LoopErrors /\ l_err = "none" /\ ~shutdown')
            => lpc' = "err_sleep"
       /\ (lpc = "err_sleep" /\ lpc' # lpc /\ ~shutdown') => lpc' = "top"
      ]_vars

\* an iteration failed with an auth error, the loop slept and is about to
\* run another iteration
C13_Witness ==
    /\ lpc = "top"
    /\ l_err \in AuthErrors
    /\ l_calls # << >>
    /\ ~shutdown

\* C16: after cancellation the cache holds no torn pair: the token key is
\* absent or the issued-TTL entry comes from the same provider response
\* as the token.
C16_CancelLeavesWholePair == lpc = "ended" => (tok = 0 \/ exp_tok = tok)

\* the iteration is over: the loop sleeps before it inspects the cache again
IterationOver == lpc \in {"wait", "sleep60", "err_sleep"}

\* the iteration read the token key and found no token / found one
FoundNoToken == token_read[LoopTask] = 0 /\ l_err # "RedisError"

FoundToken == token_read[LoopTask] # 0

\* C14 as stated: an iteration that finds no token calls obtain_token() and
\* then refresh_token(); one that finds a token issued with a TTL below
\* 300 s calls refresh_token(); one that finds a token issued with at least
\* 300 s and a remaining TTL above the buffer makes no call.
C14_IterationCalls_AsStated ==
    IterationOver =>
       /\ FoundNoToken => l_calls = <<"obtain", "refresh">>
       /\ (FoundToken /\ l_exp # 0 /\ l_exp < ShortLivedBelow)
             => l_calls = <<"refresh">>
       /\ (FoundToken /\ l_exp >= ShortLivedBelow
                      /\ ttl_read[LoopTask] > RefreshBuffer)
             => l_calls = << >>

\* C14 (amended): an iteration that finds no token calls obtain_token() and,
\* when that call returns, refresh_token(); when obtain_token() raises, the
\* iteration ends in the error handler with no refresh_token() call.  An
\* iteration that finds a token with a positive remaining TTL and an
\* issued-TTL entry below 300 s calls refresh_token() and nothing else; one
\* that finds a token with an issued-TTL entry of at least 300 s and a
\* remaining TTL above the buffer makes no call and sleeps.
C14_IterationCalls ==
    IterationOver =>
       /\ FoundNoToken =>
             \/ l_calls = <<"obtain", "refresh">>
             \/ /\ l_calls = <<"obtain">>
                /\ lpc = "err_sleep"
                /\ l_err \in AuthErrors
       /\ (FoundToken /\ ttl_read[LoopTask] > 0
                      /\ l_exp # 0 /\ l_exp < ShortLivedBelow)
             => l_calls = <<"refresh">>
       /\ (FoundToken /\ l_exp >= ShortLivedBelow
                      /\ ttl_read[LoopTask] > RefreshBuffer)
             => (l_calls = << >> /\ lpc = "wait")

\* an iteration found a token issued with 240 s and ran refresh_token()
C14_Witness ==
    /\ lpc = "sleep60"
    /\ FoundToken
    /\ ttl_read[LoopTask] > 0
    /\ l_exp = ShortTTL
    /\ l_calls = <<"refresh">>
    /\ result[LoopTask].kind = "refreshed"

\* a token has been written to the cache at some point of the behaviour
\* (under SpecTimed the loop is the only task that requests tokens)
TokenCached ==
    \/ issued >= 2
    \/ issued = 1 /\ apc[LoopTask] # "obtain_w1"

Malformed ==
    /\ b_pc # "idle"
    /\ \/ b_rfc # << >> /\ ~MatchRfc(b_rfc)
       \/ b_zip # << >> /\ ~MatchZip(b_zip)

\* C20: on every create path a request with a malformed recipient RFC or
\* zip code is rejected at the boundary: no Party is built, nothing is
\* persisted and the provider is not called.
C20_MalformedRejectedAtBoundary ==
    Malformed =>
       /\ b_pc \in {"received", "rejected"}
       /\ b_party = NoParty
       /\ ~b_saved
       /\ ~b_called

(***************************************************************************)
(* Claims about the domain constructors and the mappers.                   *)
(***************************************************************************)
\* Money(...) has returned or raised
MoneyDone == f_op = "Money" /\ f_out # NotYet

\* C22: Money with a negative amount fails with an exception of the
\* system's taxonomy (a BillingError), and Money with an amount >= 0 is
\* built.
C22_MoneyValidation ==
    MoneyDone =>
       IF f_in.amount < 0
         THEN /\ f_out.state = "raised"
              /\ "BillingError" \in ExceptionBases[f_out.exception]
         ELSE /\ f_out.state = "returned"
              /\ f_out.value.amount = f_in.amount

\* the Ubicacion list has been rendered
UbicacionesDone == f_op = "ubicaciones" /\ f_out # NotYet

\* the six characters of a position below 10
SixDigits(n) == <<"0", "0", "0", "0", "0", DigitChars[n + 1]>>

\* C23: locations are rendered in shipment order; the location at 0-based
\* position i gets the TipoUbicacion of its own type and the IDUbicacion
\* OR or DE followed by i on six digits, one index for both types; and
\* [origin, destination, destination] gives OR000000, DE000001, DE000002.
C23_LocationIds ==
    UbicacionesDone =>
       /\ f_out.state = "returned"
       /\ Len(f_out.value) = Len(f_in)
       /\ \A k \in 1..Len(f_in) :
             /\ f_out.value[k].TipoUbicacion = f_in[k]
             /\ f_out.value[k].IDUbicacion =
                   (IF f_in[k] = "Origen" THEN <<"O", "R">> ELSE <<"D", "E">>)
                   \o SixDigits(k - 1)
       /\ f_in = <<"Origen", "Destino", "Destino">> =>
             /\ f_out.value[1].IDUbicacion = <<"O", "R", "0", "0", "0", "0", "0", "0">>
             /\ f_out.value[2].IDUbicacion = <<"D", "E", "0", "0", "0", "0", "0", "1">>
             /\ f_out.value[3].IDUbicacion = <<"D", "E", "0", "0", "0", "0", "0", "2">>

\* [origin, destination, destination] has been rendered
C23_Witness ==
    /\ UbicacionesDone
    /\ f_in = <<"Origen", "Destino", "Destino">>
    /\ Len(f_out.value) = 3

\* a concept has been rendered
ConceptoDone == f_op = "concepto" /\ f_out # NotYet

\* C24: a concept with an iva percentage p gets one VAT block with base =
\* quantity x unit price rounded to 2 decimals, tasaOCuota = p / 100 and
\* importe = quantity x unit price x rate rounded to 2 decimals; a concept
\* with no iva percentage gets no impuestos field.
C24_TaxLine ==
    ConceptoDone =>
       IF f_in.tax_percentage # << >>
         THEN /\ Len(f_out.value.impuestos) = 1
              /\ f_out.value.impuestos[1].base
                    = RoundHalfEven(f_in.quantity * f_in.unit_price, 10)
              /\ f_out.value.impuestos[1].tasaOCuota = f_in.tax_percentage[1]
              /\ f_out.value.impuestos[1].importe
                    = RoundHalfEven(f_in.quantity * f_in.unit_price
                                       * f_in.tax_percentage[1], 1000)
         ELSE f_out.value.impuestos = << >>

\* an invoice has gone through build, parse and transform
RoundTripDone == f_op = "round_trip" /\ f_out # NotYet

\* C25: for every invoice the round trip succeeds and reproduces the items
\* (their iva percentage), the locations in order, and the vehicle fields.
C25_RoundTrip ==
    RoundTripDone =>
       /\ f_out.state = "returned"
       /\ f_out.value.iva = f_in.iva
       /\ f_out.value.locations = f_in.locations
       /\ f_out.value.federal_permit = f_in.federal_permit
       /\ f_out.value.insurance_company = f_in.insurance_company

HandleResponseDone == f_op = "_handle_response" /\ f_out # NotYet

\* the two error envelopes: success:false, and code/message/errors
SatPacForm(body) == body.success = <<FALSE>>

FieldValidationForm(body) == body.errors # <<>>

\* C26: a provider error response in either envelope form is raised as an
\* ExternalServiceError carrying the error parser's user message, and a
\* successful response is returned unchanged
C26_ErrorsNormalized ==
    HandleResponseDone =>
       LET body == f_in.body
       IN  IF SatPacForm(body) \/ FieldValidationForm(body)
             THEN /\ f_out.state = "raised"
                  /\ f_out.exception = "ExternalServiceError"
                  /\ f_out.message = parse_error(body).user_message
             ELSE f_in.status_code < 400 =>
                     /\ f_out.state = "returned"
                     /\ f_out.value = body

(***************************************************************************)
(* Claims about the locations of a shipment.                               *)
(***************************************************************************)
HasOrigin(locations) ==
    \E i \in DOMAIN locations : locations[i] = "Origen"

HasDestination(locations) ==
    \E i \in DOMAIN locations : locations[i] = "Destino"

\* C21: every Shipment built and persisted by a create path has at least
\* one origin and one destination, and a request whose locations lack an
\* origin or a destination, or are empty, leads to no persisted invoice
\* and no provider call
C21_OriginAndDestination ==
    /\ (b_invoice /\ b_shipment # << >>) =>
          /\ HasOrigin(b_shipment[1].locations)
          /\ HasDestination(b_shipment[1].locations)
    /\ (b_pc # "idle" /\ ~(HasOrigin(b_locs) /\ HasDestination(b_locs))) =>
          /\ ~b_invoice
          /\ ~b_called

(***************************************************************************)
(* Claims about what is persisted once the provider has answered.          *)
(***************************************************************************)
\* the UUIDs a response carries, at the three places the provider is known
\* to put one
ResponseUuids(s) ==
    {s.d_uuid, s.top, s.c_uuid} \ {NoneV}

\* C27: on both create paths, once the provider has answered the create
\* call with a UUID, the finished request has persisted an invoice with
\* status issued and that UUID
C27_StampedIsPersisted ==
    \A r \in Reqs :
       (pc[r] = "done" /\ resp[r] # NoResp /\ ResponseUuids(resp[r]) # {}) =>
          /\ db_inv[r].status = "issued"
          /\ db_inv[r].facturify_uuid \in ResponseUuids(resp[r])

(***************************************************************************)
(* Claims about the two cache keys under concurrent writers.               *)
(***************************************************************************)
\* no task is between receiving a token response and its second SETEX
NoWriteInProgress ==
    \A c \in Racers :
       apc[c] \notin {"obtain_w1", "obtain_w2", "refresh_w1", "refresh_w2"}

\* C28: whenever no token write is in progress, the cached issued-TTL
\* entry is the expires_in of the provider response that produced the
\* cached token, after any interleaving of concurrent obtain_token() and
\* refresh_token() calls
C28_ExpiryMatchesToken ==
    (NoWriteInProgress /\ tok # 0) => exp_val = tok_exp

(***************************************************************************)
(* Claims about the first unit of work of execute().                       *)
(***************************************************************************)
\* the steps of execute() inside its first `async with` block
InStep1(r) ==
    /\ path[r] = "execute"
    /\ pc[r] \in {"get_by_rfc", "upsert_select", "upsert_flush", "create",
                  "commit1"}

\* C29: step 1 of execute() is atomic: a step of it persists a recipient
\* record only together with the pending invoice, a step 1 that fails
\* persists nothing, and every persisted invoice references a persisted
\* recipient
C29_Step1Atomic ==
    [][\A r \in Reqs :
          /\ (InStep1(r) /\ pc'[r] # pc[r]) =>
                /\ (clients' # clients \/ rows' # rows) =>
                      /\ db_inv[r] = NoRow
                      /\ db_inv'[r].status = "pending"
                /\ (pc'[r] = "done" /\ db_inv'[r] = NoRow) =>
                      /\ clients' = clients
                      /\ rows' = rows
          /\ db_inv'[r] # NoRow => clients'[rfc'[r]] # "none"
      ]_vars

\* execute() for an unknown RFC has flushed the new recipient and failed
\* to create the invoice: neither is persisted
C29_Witness ==
    \E r \in Reqs :
       /\ path[r] = "execute"
       /\ pc[r] = "done"
       /\ outcome[r] = "CreateError"
       /\ clients[rfc[r]] = "none"
       /\ rows[rfc[r]] = 0
       /\ db_inv[r] = NoRow

(***************************************************************************)
(* Claims about the stored recipient record.                               *)
(***************************************************************************)
\* C30 as stated: a step of a create request whose RFC has a stored
\* recipient record leaves that record as it is
C30_ExistingRecordUnchanged ==
    [][\A r \in Reqs :
          (pc[r] # "idle" /\ pc'[r] # pc[r] /\ clients[rfc[r]] # "none") =>
             /\ clients'[rfc[r]] = clients[rfc[r]]
             /\ rows'[rfc[r]] = rows[rfc[r]]
      ]_vars

\* C30: a create request whose get_by_rfc finds a recipient record goes on
\* without entering upsert(), and only a request that went through
\* upsert() changes the clients table; so the record a request has found
\* is not written by that request, and its invoice is created on it
C30_FoundRecordUnchanged ==
    [][\A r \in Reqs :
          pc'[r] # pc[r] =>
             /\ (pc[r] = "get_by_rfc" /\ clients[rfc[r]] # "none") =>
                   /\ pc'[r] = AfterRecipient(r)
                   /\ tx_client'[r] = "none"
             /\ pc'[r] = "upsert_select" =>
                   /\ pc[r] = "get_by_rfc"
                   /\ clients[rfc[r]] = "none"
             /\ pc'[r] = "upsert_flush" => pc[r] = "upsert_select"
             /\ tx_client'[r] \notin {"none", tx_client[r]} =>
                   pc[r] = "upsert_flush"
             /\ (clients' # clients \/ rows' # rows) => tx_client[r] # "none"
      ]_vars

\* a request for the RFC that was stored from the start has ended with its
\* invoice issued, and the record is the one that was stored
C30_Witness ==
    \E r \in Reqs :
       /\ rfc[r] = "AAA010101AAA"
       /\ pc[r] = "done"
       /\ saw[r]
       /\ db_inv[r].status = "issued"
       /\ clients[rfc[r]] = "stored"
       /\ rows[rfc[r]] = 1

=============================================================================
